---- MODULE Spec2Model ----
(***************************************************************************)
(* Forecast sensitivity routines of the CFO dashboards.                    *)
(*                                                                         *)
(* The dashboards are Streamlit scripts: each run generates a baseline     *)
(* series from the process-wide numpy random generator and hands it to a   *)
(* sensitivity routine.  The model runs one routine at a time; the loop of *)
(* a routine advances one (parameter, variation) iteration per step.       *)
(*                                                                         *)
(* Numbers are exact: a float is modelled as a fraction [n, d] with d > 0, *)
(* and the non-finite float64 values as d = 0 (n = 1: inf, n = -1: -inf,   *)
(* n = 0: nan).  Rounding of binary floating point is not modelled.        *)
(* Money is counted in a unit of several million dollars that divides the  *)
(* amounts of the dashboard: the sections say which.                       *)
(***************************************************************************)
EXTENDS Integers, Sequences, FiniteSets, TLC

VARIABLES
    rng,            \* state of the process-wide numpy random generator
    routine,        \* the routine that is executing, or "idle"
    outcome,        \* "none", "running", "returned", or the exception raised
    baseline,       \* the baseline series as it was when the routine was called
    base_data,      \* the caller's baseline object (the routine's argument)
    modified_data,  \* the working series of the current iteration
    base_total,     \* the base aggregate the routine computed before its loop
    param_results,  \* the impacts of the parameter whose levels are being processed
    results,        \* the routine's results so far
    table,          \* the sensitivity table the script derives from the results
    step,           \* number of loop iterations completed
    arg,            \* the routine's other argument (variation_percentage, column)
    csv             \* the text of the script's CSV download, once exported

vars == <<rng, routine, outcome, baseline, base_data, modified_data, base_total,
          param_results, results, table, step, arg, csv>>

(***************************************************************************)
(* Bounds of the model.                                                    *)
(***************************************************************************)
MaxQuarters == 2

(***************************************************************************)
(* Exact arithmetic in place of float64.                                   *)
(***************************************************************************)
Abs(x) == IF x < 0 THEN -x ELSE x

RECURSIVE GCD(_, _)
GCD(a, b) == IF b = 0 THEN a ELSE GCD(b, a % b)

Sign(x) == IF x > 0 THEN 1 ELSE IF x < 0 THEN -1 ELSE 0

\* The fraction n/d in lowest terms; d = 0 gives inf, -inf or nan.
Frac(n, d) ==
    IF d = 0 THEN [n |-> Sign(n), d |-> 0]
    ELSE LET g == GCD(Abs(n), Abs(d))
         IN  [n |-> Sign(d) * (n \div g), d |-> Abs(d) \div g]

Num(i) == [n |-> i, d |-> 1]
Zero == Num(0)
NaN == [n |-> 0, d |-> 0]

IsFinite(x) == x.d # 0
IsNaN(x) == x.d = 0 /\ x.n = 0
IsZero(x) == x.d # 0 /\ x.n = 0

\* float64 multiplication: nan propagates, inf * 0 = nan.
Mul(x, y) ==
    IF IsFinite(x) /\ IsFinite(y)
    THEN LET g1 == GCD(Abs(x.n), y.d)
             g2 == GCD(Abs(y.n), x.d)
         IN  [n |-> (x.n \div g1) * (y.n \div g2), d |-> (x.d \div g2) * (y.d \div g1)]
    ELSE IF IsNaN(x) \/ IsNaN(y) \/ IsZero(x) \/ IsZero(y) THEN NaN
    ELSE [n |-> Sign(x.n) * Sign(y.n), d |-> 0]

\* float64 addition: nan propagates, inf + -inf = nan.
Add(x, y) ==
    IF IsFinite(x) /\ IsFinite(y)
    THEN LET g == GCD(x.d, y.d)
         IN  Frac(x.n * (y.d \div g) + y.n * (x.d \div g), (x.d \div g) * y.d)
    ELSE IF IsNaN(x) \/ IsNaN(y) THEN NaN
    ELSE IF ~IsFinite(x) /\ ~IsFinite(y) THEN (IF x.n = y.n THEN x ELSE NaN)
    ELSE IF IsFinite(x) THEN y ELSE x

Neg(x) == [n |-> -x.n, d |-> x.d]
Sub(x, y) == Add(x, Neg(y))

\* numpy float64 division: x / 0 is inf, -inf or nan (a RuntimeWarning, no exception).
Div(x, y) ==
    IF IsFinite(x) /\ IsFinite(y)
    THEN (IF y.n = 0 THEN [n |-> Sign(x.n), d |-> 0]
          ELSE Mul(x, [n |-> Sign(y.n) * y.d, d |-> Abs(y.n)]))
    ELSE IF IsNaN(x) \/ IsNaN(y) THEN NaN
    ELSE IF ~IsFinite(x) /\ ~IsFinite(y) THEN NaN
    ELSE IF IsFinite(x) THEN Zero
    ELSE [n |-> x.n * (IF y.n < 0 THEN -1 ELSE 1), d |-> 0]

Less(x, y) == x.n * y.d < y.n * x.d

\* float64 <: false when either side is nan
FloatLess(x, y) ==
    IF IsNaN(x) \/ IsNaN(y) THEN FALSE
    ELSE IF ~IsFinite(x) THEN x.n < 0 /\ (IsFinite(y) \/ y.n > 0)
    ELSE IF ~IsFinite(y) THEN y.n > 0
    ELSE Sub(y, x).n > 0

One == Num(1)

Hundred == Num(100)

RECURSIVE SumSeq(_)
SumSeq(s) == IF s = <<>> THEN Zero ELSE Add(SumSeq(SubSeq(s, 1, Len(s) - 1)), s[Len(s)])

(***************************************************************************)
(* The numpy random generator: one process-wide state, advanced by every   *)
(* draw.  random() is in [0, 1), uniform(lo, hi) in [lo, hi).              *)
(***************************************************************************)
RngStates == 0 .. 3

NextRng(s) == (5 * s + 3) % Cardinality(RngStates)

Random(s) == Frac(s, Cardinality(RngStates))

Uniform(s, lo, hi) == Add(Num(lo), Mul(Num(hi - lo), Random(s)))

RECURSIVE Advance(_, _)
Advance(s, k) == IF k = 0 THEN s ELSE Advance(NextRng(s), k - 1)

\* Advance(s, k) for a long run of draws, taken ten draws at a time
RECURSIVE AdvanceFar(_, _)
AdvanceFar(s, k) ==
    IF k <= 10 THEN Advance(s, k)
    ELSE LET t == Advance(s, 10)
         IN  IF t \in RngStates THEN AdvanceFar(t, k - 10) ELSE t

(***************************************************************************)
(* datetime.now() + timedelta(days=90*i), and the quarter label made of    *)
(* it.  A date is a day counted from 1 January 2025 (day 1), earlier dates *)
(* being zero or negative; a year is taken to have 365 days (as 2025 and   *)
(* 2026 have).                                                             *)
(***************************************************************************)
Today == {182, 273, 320}

MonthEnds == <<31, 59, 90, 120, 151, 181, 212, 243, 273, 304, 334, 365>>

MonthOf(doy) == CHOOSE m \in 1 .. 12 :
                    /\ doy <= MonthEnds[m]
                    /\ (m = 1 \/ doy > MonthEnds[m - 1])

QuarterLabel(base_date, days) ==
    LET t    == base_date + days
        year == 2025 + ((t - 1) \div 365)
        doy  == ((t - 1) % 365) + 1
    IN  <<((MonthOf(doy) - 1) \div 3) + 1, year>>

(***************************************************************************)
(* pandas DataFrame: its columns and its rows (one record per period).     *)
(***************************************************************************)
DataFrame(rows) ==
    [columns |-> IF rows = <<>> THEN {} ELSE DOMAIN rows[1], rows |-> rows]

\* df[col] *= factor
ScaleColumn(df, col, factor) ==
    [df EXCEPT !.rows = [i \in DOMAIN df.rows |->
                            [df.rows[i] EXCEPT ![col] = Mul(@, factor)]]]

\* df.drop(columns=[col]): a frame that lacks a column
DropColumn(df, col) ==
    [columns |-> df.columns \ {col},
     rows    |-> [i \in DOMAIN df.rows |->
                     [c \in (DOMAIN df.rows[i]) \ {col} |-> df.rows[i][c]]]]

\* df[col].sum()
ColumnSum(df, col) == SumSeq([i \in DOMAIN df.rows |-> df.rows[i][col]])

\* Series.min() and Series.max(): nan entries are skipped; nan if none is left
SeriesMin(s) ==
    LET kept == {i \in DOMAIN s : ~IsNaN(s[i])}
    IN  IF kept = {} THEN NaN
        ELSE s[CHOOSE i \in kept : \A j \in kept : ~FloatLess(s[j], s[i])]

SeriesMax(s) ==
    LET kept == {i \in DOMAIN s : ~IsNaN(s[i])}
    IN  IF kept = {} THEN NaN
        ELSE s[CHOOSE i \in kept : \A j \in kept : ~FloatLess(s[i], s[j])]

(***************************************************************************)
(* forecast_pkg/revenue_dashboard.py (money in units of 50 million)        *)
(***************************************************************************)
\* (the stored total with monthlyRecurringRevenue weighted 12 instead of 3)
Rev_quarter_data_annual(label, tcv, mrr, npr, cac, clv, it) ==
    [quarter                 |-> label,
     topChannelValue         |-> tcv,
     monthlyRecurringRevenue |-> mrr,
     newPromotionRevenue     |-> npr,
     customerAcquisitionCost |-> cac,
     customerLifetimeValue   |-> clv,
     inventoryTurnover       |-> it,
     revenueForecast         |-> Add(Add(tcv, Mul(mrr, Num(12))), npr)]

\* One period record; revenueForecast is the derived total.
Rev_quarter_data(label, tcv, mrr, npr, cac, clv, it) ==
    [quarter                 |-> label,
     topChannelValue         |-> tcv,
     monthlyRecurringRevenue |-> mrr,
     newPromotionRevenue     |-> npr,
     customerAcquisitionCost |-> cac,
     customerLifetimeValue   |-> clv,
     inventoryTurnover       |-> it,
     revenueForecast         |-> Add(Add(tcv, Mul(mrr, Num(3))), npr)]

Rev_columns ==
    {"quarter", "topChannelValue", "monthlyRecurringRevenue", "newPromotionRevenue",
     "customerAcquisitionCost", "customerLifetimeValue", "inventoryTurnover",
     "revenueForecast"}

\* The record of quarter i: six draws, in the order of the dictionary literal.
Rev_generated_quarter(s, base_date, i) ==
    Rev_quarter_data(QuarterLabel(base_date, 90 * i),
                     Uniform(Advance(s, 6 * i), 16, 20),
                     Uniform(Advance(s, 6 * i + 1), 4, 6),
                     Uniform(Advance(s, 6 * i + 2), 1, 2),
                     Uniform(Advance(s, 6 * i + 3), 1000, 2000),
                     Uniform(Advance(s, 6 * i + 4), 10000, 20000),
                     Uniform(Advance(s, 6 * i + 5), 4, 6))

\* generate_sample_data(quarters), called with generator state s at base_date
Rev_generate_sample_data(s, base_date, quarters) ==
    [data |-> DataFrame([i \in 1 .. quarters |-> Rev_generated_quarter(s, base_date, i - 1)]),
     rng  |-> Advance(s, 6 * quarters)]

Rev_parameters ==
    <<"topChannelValue", "monthlyRecurringRevenue", "newPromotionRevenue",
      "customerAcquisitionCost", "customerLifetimeValue", "inventoryTurnover">>

Rev_variations == <<-20, -10, 0, 10, 20>>

Rev_direct == {"topChannelValue", "monthlyRecurringRevenue", "newPromotionRevenue"}

\* The column an iteration for param scales, and the factor it scales it by.
Rev_target(param) ==
    CASE param \in Rev_direct                -> param
      [] param = "customerAcquisitionCost"  -> "newPromotionRevenue"
      [] param = "customerLifetimeValue"    -> "monthlyRecurringRevenue"
      [] param = "inventoryTurnover"        -> "topChannelValue"

\* (inventoryTurnover scaled by the whole variation)
Rev_impact_undamped(param, variation) ==
    CASE param = "customerAcquisitionCost"  -> Sub(One, Frac(variation, 100))
      [] OTHER                               -> Add(One, Frac(variation, 100))

Rev_impact(param, variation) ==
    CASE param \in Rev_direct                -> Add(One, Frac(variation, 100))
      [] param = "customerAcquisitionCost"  -> Sub(One, Frac(variation, 100))
      [] param = "customerLifetimeValue"    -> Add(One, Frac(variation, 100))
      [] param = "inventoryTurnover"        -> Add(One, Frac(variation, 200))

\* (the sum without the weight of monthlyRecurringRevenue)
Rev_revenue_unweighted(df) ==
    SumSeq([i \in DOMAIN df.rows |->
              Add(Add(df.rows[i].topChannelValue, df.rows[i].monthlyRecurringRevenue),
                  df.rows[i].newPromotionRevenue)])

\* (topChannelValue + monthlyRecurringRevenue * 3 + newPromotionRevenue).sum()
Rev_revenue(df) ==
    SumSeq([i \in DOMAIN df.rows |->
              Add(Add(df.rows[i].topChannelValue,
                      Mul(df.rows[i].monthlyRecurringRevenue, Num(3))),
                  df.rows[i].newPromotionRevenue)])

\* The columns an iteration reads: a missing one raises KeyError.
Rev_reads(param) == {Rev_target(param)} \cup Rev_direct

\* (the modified frame with its stored revenueForecast rewritten as well)
Rev_iteration_retotal(base, param, variation) ==
    LET m == ScaleColumn(base, Rev_target(param), Rev_impact(param, variation))
    IN  [base     |-> base,
         modified |-> [m EXCEPT !.rows = [i \in DOMAIN m.rows |->
                         [m.rows[i] EXCEPT !.revenueForecast =
                             Add(Add(m.rows[i].topChannelValue,
                                     Mul(m.rows[i].monthlyRecurringRevenue, Num(3))),
                                 m.rows[i].newPromotionRevenue)]]]]

\* modified_data = base_data.copy(); modified_data[target] *= impact
Rev_iteration(base, param, variation) ==
    [base     |-> base,
     modified |-> ScaleColumn(base, Rev_target(param), Rev_impact(param, variation))]

\* (modified_revenue - base_revenue) / base_revenue * 100
PercentChange(modified_total, total) ==
    Mul(Div(Sub(modified_total, total), total), Hundred)

(***************************************************************************)
(* code-v3/revenue-forecast-dashboard-streamlit-1.3.py                     *)
(***************************************************************************)
RevV3_generate_sample_data(s, base_date, quarters) ==
    [data |-> DataFrame([i \in 1 .. quarters |-> Rev_generated_quarter(s, base_date, i - 1)]),
     rng  |-> Advance(s, 6 * quarters)]

RevV3_parameters ==
    <<"topChannelValue", "monthlyRecurringRevenue", "newPromotionRevenue",
      "customerAcquisitionCost", "customerLifetimeValue", "inventoryTurnover">>

RevV3_variations == <<-20, -10, 0, 10, 20>>

\* (the scaling applied to base_data itself, without the copy)
RevV3_iteration_inplace(base, param, variation) ==
    LET m == ScaleColumn(base, param, Add(One, Frac(variation, 100)))
    IN  [base |-> m, modified |-> m]

\* modified_data = base_data.copy(); modified_data[param] *= (1 + variation / 100)
RevV3_iteration(base, param, variation) ==
    [base     |-> base,
     modified |-> ScaleColumn(base, param, Add(One, Frac(variation, 100)))]

\* (the total without the weight of monthlyRecurringRevenue)
RevV3_total_revenue_unweighted(df) ==
    SumSeq([i \in DOMAIN df.rows |->
              Add(Add(df.rows[i].topChannelValue, df.rows[i].monthlyRecurringRevenue),
                  df.rows[i].newPromotionRevenue)])

\* total_revenue of the modified frame
RevV3_total_revenue(df) ==
    SumSeq([i \in DOMAIN df.rows |->
              Add(Add(df.rows[i].topChannelValue,
                      Mul(df.rows[i].monthlyRecurringRevenue, Num(3))),
                  df.rows[i].newPromotionRevenue)])

RevV3_reads(param) ==
    {param, "topChannelValue", "monthlyRecurringRevenue", "newPromotionRevenue"}

\* sensitivity_table = (pivot(results) - base_forecast) / base_forecast * 100
RevV3_sensitivity_table(rows, base_forecast) ==
    [p \in {rows[i].parameter : i \in DOMAIN rows} |->
        [v \in {rows[i].variation : i \in DOMAIN rows} |->
            LET r == CHOOSE i \in DOMAIN rows :
                        rows[i].parameter = p /\ rows[i].variation = v
            IN  Mul(Div(Sub(rows[r].revenue, base_forecast), base_forecast), Hundred)]]

(***************************************************************************)
(* code-v3/expense-forecast-dashboard-streamlit-v1.6.py                    *)
(* Money in units of 25 million dollars.                                   *)
(***************************************************************************)
ExpV3_parameters ==
    <<"payrollCosts", "COGS", "operatingCost", "overheadCost", "RDExpenses",
      "marketingSalesExpenses">>

ExpV3_variations == <<-20, -10, 0, 10, 20>>

ExpV3_columns ==
    {"quarter", "payrollCosts", "COGS", "operatingCost", "overheadCost", "RDExpenses",
     "marketingSalesExpenses", "totalExpenses"}

\* (the record whose total leaves out marketingSalesExpenses)
ExpV3_quarter_data_partial(label, payroll, cogs, operating, overhead, rd, marketing) ==
    [quarter                |-> label,
     payrollCosts           |-> payroll,
     COGS                   |-> cogs,
     operatingCost          |-> operating,
     overheadCost           |-> overhead,
     RDExpenses             |-> rd,
     marketingSalesExpenses |-> marketing,
     totalExpenses          |-> SumSeq(<<payroll, cogs, operating, overhead, rd>>)]

\* sum(v for k, v in quarter_data.items() if k != 'quarter')
ExpV3_quarter_data(label, payroll, cogs, operating, overhead, rd, marketing) ==
    [quarter                |-> label,
     payrollCosts           |-> payroll,
     COGS                   |-> cogs,
     operatingCost          |-> operating,
     overheadCost           |-> overhead,
     RDExpenses             |-> rd,
     marketingSalesExpenses |-> marketing,
     totalExpenses          |-> SumSeq(<<payroll, cogs, operating, overhead, rd, marketing>>)]

ExpV3_generated_quarter(s, base_date, i) ==
    ExpV3_quarter_data(QuarterLabel(base_date, 90 * i),
                       Uniform(Advance(s, 6 * i), 32, 40),
                       Uniform(Advance(s, 6 * i + 1), 64, 80),
                       Uniform(Advance(s, 6 * i + 2), 16, 20),
                       Uniform(Advance(s, 6 * i + 3), 8, 10),
                       Uniform(Advance(s, 6 * i + 4), 8, 10),
                       Uniform(Advance(s, 6 * i + 5), 12, 15))

ExpV3_generate_sample_data(s, base_date, quarters) ==
    [data |-> DataFrame([i \in 1 .. quarters |-> ExpV3_generated_quarter(s, base_date, i - 1)]),
     rng  |-> Advance(s, 6 * quarters)]

ExpV3_sensitivity_factors ==
    [payrollCosts           |-> Frac(8, 10),
     COGS                   |-> Frac(12, 10),
     operatingCost          |-> Frac(6, 10),
     overheadCost           |-> Frac(4, 10),
     RDExpenses             |-> Frac(3, 10),
     marketingSalesExpenses |-> Frac(5, 10)]

\* modified_data[parameters].sum(axis=1), stored as totalExpenses
ExpV3_retotal(df) ==
    [df EXCEPT !.columns = @ \cup {"totalExpenses"},
               !.rows = [i \in DOMAIN df.rows |->
                    [c \in DOMAIN df.rows[i] \cup {"totalExpenses"} |->
                        IF c = "totalExpenses"
                        THEN SumSeq([k \in DOMAIN ExpV3_parameters |->
                                        df.rows[i][ExpV3_parameters[k]]])
                        ELSE df.rows[i][c]]]]

\* (the scaling applied to base_data itself, without the copy)
ExpV3_iteration_inplace(base, param, variation) ==
    LET m == ExpV3_retotal(ScaleColumn(base, param, Add(One, Frac(variation, 100))))
    IN  [base |-> m, modified |-> m]

\* modified_data = base_data.copy(); the scaling; totalExpenses recomputed
ExpV3_iteration(base, param, variation) ==
    [base     |-> base,
     modified |-> ExpV3_retotal(ScaleColumn(base, param, Add(One, Frac(variation, 100))))]

\* (the percentage change without the sensitivity factor)
ExpV3_percent_change_unweighted(total_expenses, base_expenses, param) ==
    Mul(Div(Sub(total_expenses, base_expenses), base_expenses), Hundred)

\* (parameter_contribution / base_expenses) * 100 * sensitivity_factors[param]
ExpV3_percent_change(total_expenses, base_expenses, param) ==
    Mul(Mul(Div(Sub(total_expenses, base_expenses), base_expenses), Hundred),
        ExpV3_sensitivity_factors[param])

(***************************************************************************)
(* forecast_pkg/cashflow_dashboard.py                                      *)
(* The baseline is a list of dictionaries; money in units of 5 million     *)
(* dollars.  dtype tells whether the numbers are numpy float64 scalars (as *)
(* the generator makes them) or Python floats: they differ in x / 0.       *)
(***************************************************************************)
days_in_quarter == 91

Floor(x) == x.n \div x.d

\* np.random.randint(lo, hi): an integer in [lo, hi)
RandInt(s, lo, hi) == lo + Floor(Mul(Num(hi - lo), Random(s)))

\* 1 + np.sin(index * np.pi / 2) * amplitude, amplitude in hundredths
SeasonalFactor(index, amplitude) ==
    Add(One, Mul(Num(<<0, 1, 0, -1>>[(index % 4) + 1]), Frac(amplitude, 100)))

Cash_quarters == <<<<3, 2024>>, <<4, 2024>>, <<1, 2025>>, <<2, 2025>>, <<3, 2025>>>>

\* The record of quarter index (0-based), generator state s on entry: seven draws.
Cash_generated_quarter(s, index) ==
    LET seasonal_factor == SeasonalFactor(index, 15)
        random_factor   == Add(Frac(9, 10), Mul(Random(s), Frac(2, 10)))
    IN  [quarter                |-> Cash_quarters[index + 1],
         salesRevenue           |-> Mul(Mul(Num(200), seasonal_factor), random_factor),
         accountsReceivableDays |-> Num(45 + RandInt(Advance(s, 1), -5, 6)),
         rawMaterialCosts       |-> Mul(Mul(Num(80), seasonal_factor),
                                        Add(Frac(95, 100), Mul(Random(Advance(s, 2)), Frac(1, 10)))),
         laborCosts             |-> Mul(Mul(Num(60), Add(One, Frac(index * 2, 100))), random_factor),
         accountsPayableDays    |-> Num(30 + RandInt(Advance(s, 3), -3, 4)),
         capex                  |-> Mul(Mul(Num(10), Sub(One, Frac(index * 5, 100))), random_factor),
         inventoryTurnover      |-> Sub(Add(Num(6), Random(Advance(s, 4))), Frac(1, 2)),
         operatingExpenses      |-> Mul(Mul(Num(36), Add(One, Frac(index, 100))), random_factor),
         debtRepayments         |-> Num(4),
         taxPayments            |-> Mul(Mul(Num(2), seasonal_factor), random_factor),
         seasonalFactor         |-> seasonal_factor,
         customerPrepayments    |-> Mul(Mul(Num(10), seasonal_factor), random_factor),
         supplierCreditDays     |-> Num(45 + RandInt(Advance(s, 5), -2, 3)),
         dividendPayments       |-> Num(1),
         fxRate                 |-> Add(Add(One, Frac(index * 2, 100)),
                                        Sub(Mul(Random(Advance(s, 6)), Frac(4, 100)), Frac(2, 100)))]

\* generate_realistic_sample_data(), over the first two of the five quarters of the
\* list: the exact fractions of a longer series exceed TLC's 32-bit integers.
generate_realistic_sample_data(s) ==
    LET quarters == SubSeq(Cash_quarters, 1, 2)
    IN  [data |-> [dtype |-> "float64",
                   rows  |-> [i \in DOMAIN quarters |->
                                 Cash_generated_quarter(Advance(s, 7 * (i - 1)), i - 1)]],
         rng  |-> Advance(s, 7 * Len(quarters))]

\* The keys calculate_cashflow reads of every quarter.
Cash_reads ==
    {"quarter", "salesRevenue", "accountsReceivableDays", "customerPrepayments",
     "rawMaterialCosts", "laborCosts", "accountsPayableDays", "capex",
     "operatingExpenses", "debtRepayments", "taxPayments", "dividendPayments"}

\* (the net cashflow with a capex outflow that grows with the square of capex)
Cash_net_cashflow_convex(quarter, variation_percentage) ==
    LET variation_factor == Add(One, Frac(variation_percentage, 100))
    IN  Sub(Mul(quarter.salesRevenue, variation_factor),
            Add(Mul(Mul(quarter.capex, quarter.capex), variation_factor),
                quarter.debtRepayments))

\* net_cashflow of one quarter
Cash_net_cashflow(quarter, variation_percentage) ==
    LET variation_factor == Add(One, Frac(variation_percentage, 100))
        cash_inflow ==
            Add(Mul(Mul(quarter.salesRevenue, variation_factor),
                    Div(Num(days_in_quarter), quarter.accountsReceivableDays)),
                Mul(quarter.customerPrepayments, variation_factor))
        cash_outflow ==
            SumSeq(<<Mul(Mul(Add(quarter.rawMaterialCosts, quarter.laborCosts), variation_factor),
                         Div(Num(days_in_quarter), quarter.accountsPayableDays)),
                     Mul(quarter.capex, variation_factor),
                     Mul(quarter.operatingExpenses, variation_factor),
                     quarter.debtRepayments,
                     Mul(quarter.taxPayments, variation_factor),
                     quarter.dividendPayments>>)
    IN  Sub(cash_inflow, cash_outflow)

\* calculate_cashflow(data, variation_percentage), data the list of dictionaries
calculate_cashflow(rows, variation_percentage) ==
    [i \in DOMAIN rows |->
        [quarter     |-> rows[i].quarter,
         netCashflow |-> Cash_net_cashflow(rows[i], variation_percentage)]]

\* sum(q['netCashflow'] for q in cashflow)
Cash_total(cashflow) == SumSeq([i \in DOMAIN cashflow |-> cashflow[i].netCashflow])

Cash_parameters ==
    <<"salesRevenue", "accountsReceivableDays", "rawMaterialCosts", "laborCosts",
      "accountsPayableDays", "capex", "inventoryTurnover", "operatingExpenses",
      "debtRepayments", "taxPayments", "seasonalFactor", "customerPrepayments",
      "supplierCreditDays", "dividendPayments", "fxRate">>

\* (the list with the first quarter only rebuilt)
Cash_varied_first(rows, param, factor) ==
    [i \in DOMAIN rows |-> IF i = 1 THEN [rows[i] EXCEPT ![param] = Mul(@, factor)] ELSE rows[i]]

\* [{**quarter, param: quarter[param] * factor} for quarter in base_data]
Cash_varied(rows, param, factor) ==
    [i \in DOMAIN rows |-> [rows[i] EXCEPT ![param] = Mul(@, factor)]]

\* (the decreased records written back into base_data)
Cash_iteration_inplace(base, param, variation_percentage) ==
    LET inc == Cash_varied(base.rows, param, Add(One, Frac(variation_percentage, 100)))
        dec == Cash_varied(base.rows, param, Sub(One, Frac(variation_percentage, 100)))
    IN  [base |-> [base EXCEPT !.rows = dec], increased |-> inc, decreased |-> dec]

\* increased_data and decreased_data: new lists of new dictionaries
Cash_iteration(base, param, variation_percentage) ==
    [base      |-> base,
     increased |-> Cash_varied(base.rows, param, Add(One, Frac(variation_percentage, 100))),
     decreased |-> Cash_varied(base.rows, param, Sub(One, Frac(variation_percentage, 100)))]

\* A key some record of the list lacks
Cash_missing(rows, keys) == \E i \in DOMAIN rows : ~(keys \subseteq DOMAIN rows[i])

(***************************************************************************)
(* forecast_pkg/expense_dashboard.py (money in units of 25 million)        *)
(***************************************************************************)
\* (the record whose minimum is drawn from [0.8, 1.1) of the base)
Exp_generated_quarter_wide(s, i) ==
    LET baseForecast == Mul(Num(40), Add(Frac(9, 10), Mul(Random(s), Frac(2, 10))))
    IN  [quarter      |-> <<i + 1, 2025>>,
         baseForecast |-> baseForecast,
         minForecast  |-> Mul(baseForecast, Add(Frac(8, 10), Mul(Random(Advance(s, 1)), Frac(3, 10)))),
         maxForecast  |-> Mul(baseForecast, Add(Frac(11, 10), Mul(Random(Advance(s, 2)), Frac(1, 10))))]

\* The record of quarter i (0-based): three draws.
Exp_generated_quarter(s, i) ==
    LET baseForecast == Mul(Num(40), Add(Frac(9, 10), Mul(Random(s), Frac(2, 10))))
    IN  [quarter      |-> <<i + 1, 2025>>,
         baseForecast |-> baseForecast,
         minForecast  |-> Mul(baseForecast, Add(Frac(8, 10), Mul(Random(Advance(s, 1)), Frac(1, 10)))),
         maxForecast  |-> Mul(baseForecast, Add(Frac(11, 10), Mul(Random(Advance(s, 2)), Frac(1, 10))))]

generate_expense_sample_data(s, quarters) ==
    [data |-> DataFrame([i \in 1 .. quarters |-> Exp_generated_quarter(Advance(s, 3 * (i - 1)), i - 1)]),
     rng  |-> Advance(s, 3 * quarters)]

Exp_parameters ==
    <<"payrollCosts", "COGS", "operatingCost", "overheadCost", "inventoryValue",
      "RDExpenses", "marketingSalesExpenses">>

Exp_variations == <<-20, -10, 0, 10, 20>>

Max(x, y) == IF Less(x, y) THEN y ELSE x
Min(x, y) == IF Less(y, x) THEN y ELSE x

\* The effect of one cell: two draws, generator state s on entry.
Exp_effect(s, variation) ==
    LET base_effect   == Mul(Num(variation), Add(Frac(1, 2), Random(s)))
        random_factor == Mul(Sub(Random(Advance(s, 1)), Frac(1, 2)), Num(20))
        effect        == Add(base_effect, random_factor)
    IN  Max(Num(-50), Min(Num(50), effect))

(***************************************************************************)
(* forecast_pkg/balance_sheet_dashboard.py (money in units of 50 million)  *)
(***************************************************************************)
Bal_quarters == <<<<3, 2024>>, <<4, 2024>>, <<1, 2025>>, <<2, 2025>>, <<3, 2025>>>>

base_assets == 80

\* The record of quarter index (0-based): one draw.
Bal_generated_quarter(s, index) ==
    LET seasonal_factor == SeasonalFactor(index, 20)
        random_factor   == Add(Frac(8, 10), Mul(Random(s), Frac(4, 10)))
        Share(pct, f)   == Mul(Mul(Mul(Num(base_assets), Frac(pct, 100)), f), random_factor)
    IN  [quarter                  |-> Bal_quarters[index + 1],
         cash                     |-> Share(10, seasonal_factor),
         accountsReceivable       |-> Share(15, seasonal_factor),
         inventory                |-> Share(20, seasonal_factor),
         ppe                      |-> Share(40, Add(One, Frac(index * 5, 100))),
         accountsPayable          |-> Share(10, seasonal_factor),
         shortTermDebt            |-> Share(5, Sub(One, Frac(index * 3, 100))),
         longTermDebt             |-> Share(30, Sub(One, Frac(index, 100))),
         retainedEarnings         |-> Share(20, Add(One, Frac(index * 4, 100))),
         capex                    |-> Share(5, seasonal_factor),
         depreciationAmortization |-> Share(3, Add(One, Frac(index * 2, 100)))]

Bal_generate_sample_data(s) ==
    [data |-> [i \in DOMAIN Bal_quarters |-> Bal_generated_quarter(Advance(s, i - 1), i - 1)],
     rng  |-> Advance(s, Len(Bal_quarters))]

calculate_balance_sheet(data, variation_percentage) ==
    LET variation_factor == Add(One, Frac(variation_percentage, 100))
    IN  [i \in DOMAIN data |->
            LET quarter == data[i]
                total_assets ==
                    Mul(SumSeq(<<quarter.cash, quarter.accountsReceivable,
                                 quarter.inventory, quarter.ppe>>), variation_factor)
                total_liabilities ==
                    Mul(SumSeq(<<quarter.accountsPayable, quarter.shortTermDebt,
                                 quarter.longTermDebt>>), variation_factor)
                total_equity == Mul(quarter.retainedEarnings, variation_factor)
            IN  [quarter           |-> quarter.quarter,
                 totalAssets       |-> total_assets,
                 totalLiabilities  |-> total_liabilities,
                 totalEquity       |-> total_equity,
                 balanceSheetTotal |-> total_assets]]

Bal_parameters ==
    <<"cash", "accountsReceivable", "inventory", "ppe", "accountsPayable",
      "shortTermDebt", "longTermDebt", "retainedEarnings", "capex",
      "depreciationAmortization">>

\* (np.random.random() * 15 + 5) * (1 if np.random.random() < 0.5 else -1): two draws
Bal_impact(s) ==
    Mul(Add(Mul(Random(s), Num(15)), Num(5)),
        IF Less(Random(Advance(s, 1)), Frac(1, 2)) THEN Num(1) ELSE Num(-1))

(***************************************************************************)
(* code-v3/cfo-forecast-dashboard-streamlit.py (money in millions)         *)
(***************************************************************************)
\* np.random.normal(mean, sd): the deviate is a symmetric function of the generator state
Normal(s, mean, sd) ==
    Add(mean, Mul(sd, Frac(2 * s + 1 - Cardinality(RngStates), Cardinality(RngStates))))

\* np.random.seed(42)
Seeded == 42 % Cardinality(RngStates)

\* (the record whose investing cash flow keeps the sign of the draw)
Fc_period_unsigned(s, i, total_periods, base_revenue, previous_assets) ==
    LET revenue  == Add(Mul(base_revenue, Add(One, Frac(i, 10 * total_periods))),
                        Normal(s, Zero, Mul(base_revenue, Frac(5, 100))))
        expenses == Add(Mul(revenue, Frac(98, 100)),
                        Normal(Advance(s, 1), Zero, Mul(base_revenue, Frac(2, 100))))
        profit   == Sub(revenue, expenses)
        operating_cash_flow == Add(profit, Normal(Advance(s, 2), Zero, Mul(base_revenue, Frac(1, 100))))
        investing == Normal(Advance(s, 3), Mul(base_revenue, Frac(5, 100)), Mul(base_revenue, Frac(2, 100)))
        investing_cash_flow == [n |-> Abs(investing.n), d |-> investing.d]
        financing_cash_flow == Normal(Advance(s, 4), Zero, Mul(base_revenue, Frac(3, 100)))
        net_cash_flow == Add(Add(operating_cash_flow, investing_cash_flow), financing_cash_flow)
        assets == Add(Add(previous_assets, net_cash_flow), Normal(Advance(s, 5), Zero, Num(100)))
        liabilities == Add(Mul(assets, Frac(4, 10)), Normal(Advance(s, 6), Zero, Num(100)))
    IN  [date                |-> i + 1,
         revenue             |-> revenue,
         expenses            |-> expenses,
         profit              |-> profit,
         operating_cash_flow |-> operating_cash_flow,
         investing_cash_flow |-> investing_cash_flow,
         financing_cash_flow |-> financing_cash_flow,
         net_cash_flow       |-> net_cash_flow,
         assets              |-> assets,
         liabilities         |-> liabilities,
         equity              |-> Sub(assets, liabilities)]

\* The record of period i (0-based), s the generator state on entry: seven draws.
Fc_period(s, i, total_periods, base_revenue, previous_assets) ==
    LET revenue  == Add(Mul(base_revenue, Add(One, Frac(i, 10 * total_periods))),
                        Normal(s, Zero, Mul(base_revenue, Frac(5, 100))))
        expenses == Add(Mul(revenue, Frac(98, 100)),
                        Normal(Advance(s, 1), Zero, Mul(base_revenue, Frac(2, 100))))
        profit   == Sub(revenue, expenses)
        operating_cash_flow == Add(profit, Normal(Advance(s, 2), Zero, Mul(base_revenue, Frac(1, 100))))
        investing == Normal(Advance(s, 3), Mul(base_revenue, Frac(5, 100)), Mul(base_revenue, Frac(2, 100)))
        investing_cash_flow == [n |-> -Abs(investing.n), d |-> investing.d]
        financing_cash_flow == Normal(Advance(s, 4), Zero, Mul(base_revenue, Frac(3, 100)))
        net_cash_flow == Add(Add(operating_cash_flow, investing_cash_flow), financing_cash_flow)
        assets == Add(Add(previous_assets, net_cash_flow), Normal(Advance(s, 5), Zero, Num(100)))
        liabilities == Add(Mul(assets, Frac(4, 10)), Normal(Advance(s, 6), Zero, Num(100)))
    IN  [date                |-> i + 1,
         revenue             |-> revenue,
         expenses            |-> expenses,
         profit              |-> profit,
         operating_cash_flow |-> operating_cash_flow,
         investing_cash_flow |-> investing_cash_flow,
         financing_cash_flow |-> financing_cash_flow,
         net_cash_flow       |-> net_cash_flow,
         assets              |-> assets,
         liabilities         |-> liabilities,
         equity              |-> Sub(assets, liabilities)]

\* The loop of generate_forecast_data, data holding the records made so far.
RECURSIVE Fc_records(_, _, _)
Fc_records(data, total_periods, base_revenue) ==
    IF Len(data) = total_periods THEN data
    ELSE LET i == Len(data)
             previous_assets == IF i = 0 THEN Num(5000) ELSE data[i].assets
         IN  Fc_records(Append(data, Fc_period(Advance(Seeded, 7 * i), i, total_periods,
                                               base_revenue, previous_assets)),
                        total_periods, base_revenue)

\* (the loop drawing from the generator state s0 the call was entered with)
RECURSIVE Fc_records_unseeded(_, _, _, _)
Fc_records_unseeded(s0, data, total_periods, base_revenue) ==
    IF Len(data) = total_periods THEN data
    ELSE LET i == Len(data)
             previous_assets == IF i = 0 THEN Num(5000) ELSE data[i].assets
         IN  Fc_records_unseeded(s0, Append(data, Fc_period(Advance(s0, 7 * i), i, total_periods,
                                                            base_revenue, previous_assets)),
                                 total_periods, base_revenue)

\* (generate_forecast_data without np.random.seed(42): the draws continue the
\* process-wide generator)
generate_forecast_data_unseeded(years, periods_per_year) ==
    LET total_periods == years * periods_per_year
    IN  [data |-> DataFrame(Fc_records_unseeded(rng, <<>>, total_periods,
                                                Frac(4000, periods_per_year))),
         rng  |-> Advance(rng, 7 * total_periods)]

\* generate_forecast_data(years, periods_per_year): reseeds, then draws
generate_forecast_data(years, periods_per_year) ==
    LET total_periods == years * periods_per_year
    IN  [data |-> DataFrame(Fc_records(<<>>, total_periods, Frac(4000, periods_per_year))),
         rng  |-> Advance(Seeded, 7 * total_periods)]

Fc_columns ==
    {"date", "revenue", "expenses", "profit", "operating_cash_flow", "investing_cash_flow",
     "financing_cash_flow", "net_cash_flow", "assets", "liabilities", "equity"}

\* variations, in thousandths: [-0.1, -0.05, 0, 0.05, 0.1]
Fc_variations == <<-100, -50, 0, 50, 100>>

\* (the variation added to every entry instead of scaling it)
Fc_value_shifted(df, column, var) ==
    SumSeq([i \in DOMAIN df.rows |-> Add(df.rows[i][column], Frac(var, 1000))])

\* (data[column] * (1 + var)).sum()
Fc_value(df, column, var) ==
    SumSeq([i \in DOMAIN df.rows |-> Mul(df.rows[i][column], Add(One, Frac(var, 1000)))])

(***************************************************************************)
(* code-v2/cfo-dashboard-streamlit-2.5.py (money in millions)              *)
(***************************************************************************)
MaxYears == 2

V2_columns ==
    {"quarter", "income", "expenses", "income_components", "expense_components",
     "bank_balance", "credit_card_balance", "credit_line_available", "inventory",
     "payables", "receivables", "payroll_liabilities", "days_to_pay", "days_turnover",
     "return_on_equity", "return_on_assets"}

\* np.random.uniform(lo, hi) with bounds in hundredths
UniformPct(s, lo, hi) == Add(Frac(lo, 100), Mul(Frac(hi - lo, 100), Random(s)))

\* quarter_data of loop index i: thirteen draws, generator state s on entry.
V2_quarter_data(s, base_date, i) ==
    LET total_income   == Uniform(s, 900, 1000)
        total_expenses == Uniform(Advance(s, 1), 880, 970)
    IN  [quarter               |-> QuarterLabel(base_date, -90 * i),
         income                |-> total_income,
         expenses              |-> total_expenses,
         income_components     |->
             [passenger_vehicles |-> Mul(total_income, Frac(4, 10)),
              trucking_lines     |-> Mul(total_income, Frac(3, 10)),
              services           |-> Mul(total_income, Frac(2, 10)),
              licensing          |-> Mul(total_income, Frac(1, 10))],
         expense_components    |->
             [COGS                      |-> Mul(total_expenses, Frac(5, 10)),
              SGA                       |-> Mul(total_expenses, Frac(2, 10)),
              RD                        |-> Mul(total_expenses, Frac(15, 100)),
              depreciation_amortization |-> Mul(total_expenses, Frac(1, 10)),
              other                     |-> Mul(total_expenses, Frac(5, 100))],
         bank_balance          |-> Uniform(Advance(s, 2), 50, 100),
         credit_card_balance   |-> Uniform(Advance(s, 3), 1, 5),
         credit_line_available |-> Uniform(Advance(s, 4), 20, 50),
         inventory             |-> Uniform(Advance(s, 5), 200, 400),
         payables              |-> Uniform(Advance(s, 6), 100, 200),
         receivables           |-> Uniform(Advance(s, 7), 150, 300),
         payroll_liabilities   |-> Uniform(Advance(s, 8), 20, 40),
         days_to_pay           |-> Num(RandInt(Advance(s, 9), 30, 60)),
         days_turnover         |-> Num(RandInt(Advance(s, 10), 45, 75)),
         return_on_equity      |-> UniformPct(Advance(s, 11), 5, 15),
         return_on_assets      |-> UniformPct(Advance(s, 12), 3, 10)]

\* list(reversed(data))
Reversed(data) == [k \in DOMAIN data |-> data[Len(data) + 1 - k]]

\* generate_quarterly_data(years), called on base_date, generator state s on entry
generate_quarterly_data(s, base_date, years) ==
    LET data == [k \in 1 .. years * 4 |->
                    V2_quarter_data(AdvanceFar(s, 13 * (k - 1)), base_date, k - 1)]
    IN  [data |-> Reversed(data), rng |-> AdvanceFar(s, 13 * years * 4)]

(***************************************************************************)
(* code-v2/cfo-dashboard-streamlit-complete.py (money in millions)         *)
(***************************************************************************)
MaxDays == 2

\* np.random.seed(seed): the generator state s is replaced, whatever it was
np_random_seed(s, seed) == seed % Cardinality(RngStates)

V2c_numeric_columns ==
    <<"Bank_Balance", "Credit_Card_Balance", "Credit_Line_Available", "Expenses", "Income",
      "Inventory", "Payables", "Receivables", "Payroll_Liabilities", "Days_to_Pay",
      "Days_Turnover", "Return_on_Equity", "Return_on_Assets">>

\* One entry of a column of the data dict, drawn in generator state t.
V2c_draw(column, t) ==
    CASE column = "Bank_Balance"          -> Uniform(t, 50, 100)
      [] column = "Credit_Card_Balance"   -> Uniform(t, 1, 5)
      [] column = "Credit_Line_Available" -> Uniform(t, 20, 50)
      [] column = "Expenses"              -> UniformPct(t, 980, 1020)
      [] column = "Income"                -> UniformPct(t, 1080, 1120)
      [] column = "Inventory"             -> Uniform(t, 200, 400)
      [] column = "Payables"              -> Uniform(t, 100, 200)
      [] column = "Receivables"           -> Uniform(t, 150, 300)
      [] column = "Payroll_Liabilities"   -> Uniform(t, 20, 40)
      [] column = "Days_to_Pay"           -> Num(RandInt(t, 30, 60))
      [] column = "Days_Turnover"         -> Num(RandInt(t, 45, 75))
      [] column = "Return_on_Equity"      -> UniformPct(t, 5, 15)
      [] column = "Return_on_Assets"      -> UniformPct(t, 3, 10)

\* The frame of the data dict: every column is an array of `days` draws, the
\* arrays drawn one after the other from the generator state s0; Date is
\* pd.date_range(end=datetime.now(), periods=days).
V2c_frame(s0, base_date, days) ==
    DataFrame([j \in 1 .. days |->
        [c \in {"Date"} \cup {V2c_numeric_columns[k] : k \in DOMAIN V2c_numeric_columns} |->
            IF c = "Date" THEN Num(base_date - (days - j))
            ELSE LET k == CHOOSE k \in DOMAIN V2c_numeric_columns : V2c_numeric_columns[k] = c
                 IN  V2c_draw(c, AdvanceFar(s0, (k - 1) * days + j - 1))]])

\* (generate_data without np.random.seed(42))
generate_data_unseeded(s, base_date, days) ==
    [data |-> V2c_frame(s, base_date, days),
     rng  |-> AdvanceFar(s, Len(V2c_numeric_columns) * days)]

\* generate_data(days), s the generator state on entry
generate_data(s, base_date, days) ==
    LET seeded == np_random_seed(s, 42)
    IN  [data |-> V2c_frame(seeded, base_date, days),
         rng  |-> AdvanceFar(seeded, Len(V2c_numeric_columns) * days)]

(***************************************************************************)
(* DataFrame.to_csv(index=False), and pandas.read_csv of the text.  The    *)
(* text is a header and one line per record; a field is the text str()     *)
(* makes of the cell.  The text of a float spells the float (repr), the    *)
(* text of a string is the string.                                         *)
(***************************************************************************)
StrColumns == {"quarter"}

DictColumns == {"income_components", "expense_components"}

\* str(v), v an object of the column's type
CellText(col, v) ==
    [of     |-> IF col \in StrColumns THEN "str"
                ELSE IF col \in DictColumns THEN "dict" ELSE "number",
     spells |-> v]

to_csv(df) ==
    [header |-> df.columns,
     lines  |-> [i \in DOMAIN df.rows |-> [c \in df.columns |-> CellText(c, df.rows[i][c])]]]

\* read_csv infers a numeric column where every field spells a number; any other
\* column holds the fields as strings.
read_csv(text) ==
    [columns |-> text.header,
     rows    |-> [i \in DOMAIN text.lines |->
                    [c \in text.header |->
                        LET field   == text.lines[i][c]
                            numeric == \A j \in DOMAIN text.lines : text.lines[j][c].of = "number"
                        IN  IF numeric \/ field.of = "str" THEN field.spells ELSE field]]]

(***************************************************************************)
(* Baselines handed to a routine by a caller other than the dashboard's    *)
(* own generator: any frame of the dashboard's schema, possibly with no    *)
(* period or lacking a column.                                             *)
(***************************************************************************)
SeqsUpTo(S, n) == UNION {[1 .. k -> S] : k \in 0 .. n}

\* <<topChannelValue, monthlyRecurringRevenue, newPromotionRevenue>>
Rev_supplied_drivers == {<<3, -1, 0>>, <<2, 1, 1>>}

Rev_supplied_rows(ds) ==
    [i \in DOMAIN ds |->
        Rev_quarter_data(<<i, 2025>>, Num(ds[i][1]), Num(ds[i][2]), Num(ds[i][3]),
                         Num(1500), Num(15000), Num(5))]

Rev_supplied_frames ==
    LET full == {[columns |-> Rev_columns, rows |-> Rev_supplied_rows(ds)] :
                    ds \in SeqsUpTo(Rev_supplied_drivers, MaxQuarters)}
        uniform == {[columns |-> Rev_columns,
                     rows    |-> Rev_supplied_rows([i \in 1 .. n |-> <<2, 1, 1>>])] :
                       n \in 0 .. MaxQuarters}
    IN  full \cup {DropColumn(df, c) : df \in uniform, c \in Rev_columns \ {"quarter"}}

\* <<payrollCosts, COGS, operatingCost, overheadCost, RDExpenses, marketingSalesExpenses>>
ExpV3_supplied_drivers ==
    {<<1, -1, 0, 0, 0, 0>>, <<2, 4, 1, 1, 1, 1>>}

ExpV3_supplied_rows(ds) ==
    [i \in DOMAIN ds |->
        ExpV3_quarter_data(<<i, 2025>>, Num(ds[i][1]), Num(ds[i][2]), Num(ds[i][3]),
                           Num(ds[i][4]), Num(ds[i][5]), Num(ds[i][6]))]

ExpV3_supplied_frames ==
    LET full == {[columns |-> ExpV3_columns, rows |-> ExpV3_supplied_rows(ds)] :
                    ds \in SeqsUpTo(ExpV3_supplied_drivers, MaxQuarters)}
        uniform == {[columns |-> ExpV3_columns,
                     rows    |-> ExpV3_supplied_rows([i \in 1 .. n |-> <<2, 4, 1, 1, 1, 1>>])] :
                       n \in 0 .. MaxQuarters}
        payroll == {[columns |-> ExpV3_columns,
                     rows    |-> ExpV3_supplied_rows([i \in 1 .. n |-> <<6, 5, 1, 1, 1, 1>>])] :
                       n \in 1 .. MaxQuarters}
    IN  full \cup payroll
             \cup {DropColumn(df, c) : df \in uniform, c \in ExpV3_columns \ {"quarter"}}

\* Cashflow baselines from another data source: three kinds of quarter.
Cash_supplied_quarter(label, sales, costs) ==
    [quarter                |-> label,
     salesRevenue           |-> Num(sales),
     accountsReceivableDays |-> Num(91),
     rawMaterialCosts       |-> Num(costs),
     laborCosts             |-> Zero,
     accountsPayableDays    |-> Num(91),
     capex                  |-> Zero,
     inventoryTurnover      |-> Num(6),
     operatingExpenses      |-> Zero,
     debtRepayments         |-> Zero,
     taxPayments            |-> Zero,
     seasonalFactor         |-> One,
     customerPrepayments    |-> Zero,
     supplierCreditDays     |-> Num(45),
     dividendPayments       |-> Zero,
     fxRate                 |-> One]

\* <<salesRevenue, rawMaterialCosts>>
Cash_supplied_drivers == {<<100, 100>>, <<100, 40>>}

Cash_supplied_rows(ds) ==
    [i \in DOMAIN ds |-> Cash_supplied_quarter(<<i, 2025>>, ds[i][1], ds[i][2])]

\* The record rows[i] without the key k
Cash_without(rows, i, k) ==
    [j \in DOMAIN rows |->
        IF j = i THEN [c \in (DOMAIN rows[j]) \ {k} |-> rows[j][c]] ELSE rows[j]]

Cash_supplied_lists ==
    LET full    == {Cash_supplied_rows(ds) : ds \in SeqsUpTo(Cash_supplied_drivers, MaxQuarters)}
        uniform == {Cash_supplied_rows([i \in 1 .. n |-> <<100, 40>>]) : n \in 1 .. MaxQuarters}
    IN  {[dtype |-> t, rows |-> rows] : t \in {"float", "float64"}, rows \in full}
        \cup UNION {{[dtype |-> "float", rows |-> Cash_without(rows, i, Cash_parameters[k])] :
                        i \in DOMAIN rows, k \in DOMAIN Cash_parameters} : rows \in uniform}

\* Forecast frames from another data source: revenue per period.
Fc_supplied_frames ==
    {[columns |-> Fc_columns,
      rows    |-> [i \in DOMAIN vs |-> [c \in Fc_columns |-> IF c = "date" THEN Num(i) ELSE Num(vs[i])]]] :
        vs \in SeqsUpTo({0, 100}, MaxQuarters)}

(***************************************************************************)
(* State machine                                                           *)
(***************************************************************************)
Empty == <<>>

Init ==
    /\ rng \in RngStates
    /\ routine = "idle"
    /\ outcome = "none"
    /\ baseline = Empty
    /\ base_data = Empty
    /\ modified_data = Empty
    /\ base_total = Zero
    /\ param_results = Empty
    /\ results = Empty
    /\ table = Empty
    /\ step = 0
    /\ arg = Empty
    /\ csv = Empty

\* A routine is entered with its argument bound and its locals fresh.
Enter(r, data, a, total, out) ==
    /\ routine' = r
    /\ outcome' = out
    /\ baseline' = data
    /\ base_data' = data
    /\ modified_data' = Empty
    /\ base_total' = total
    /\ param_results' = Empty
    /\ results' = Empty
    /\ table' = Empty
    /\ step' = 0
    /\ arg' = a
    /\ csv' = Empty

\* dict[param] = value
Store(dict, param, value) ==
    [q \in DOMAIN dict \cup {param} |-> IF q = param THEN value ELSE dict[q]]

(***************************************************************************)
(* forecast_pkg/revenue_dashboard.py: perform_sensitivity_analysis         *)
(***************************************************************************)
\* Up to the loop: base_revenue is read from the stored revenueForecast column.
Rev_enter(df) ==
    IF "revenueForecast" \in df.columns
    THEN Enter("Rev_perform_sensitivity_analysis", df, Empty,
               ColumnSum(df, "revenueForecast"), "running")
    ELSE Enter("Rev_perform_sensitivity_analysis", df, Empty, Zero, "KeyError")

\* revenue_forecast_dashboard: data = generate_sample_data(quarters), then the call
Rev_dashboard ==
    /\ routine = "idle"
    /\ \E base_date \in Today, quarters \in 0 .. MaxQuarters :
          LET g == Rev_generate_sample_data(rng, base_date, quarters)
          IN  /\ rng' = g.rng
              /\ Rev_enter(g.data)

\* perform_sensitivity_analysis called on a frame from another data source
Rev_call ==
    /\ routine = "idle"
    /\ \E df \in Rev_supplied_frames : Rev_enter(df)
    /\ UNCHANGED rng

\* One iteration of the parameter x variation loops.
Rev_step ==
    /\ routine = "Rev_perform_sensitivity_analysis"
    /\ outcome = "running"
    /\ LET param     == Rev_parameters[(step \div Len(Rev_variations)) + 1]
           variation == Rev_variations[(step % Len(Rev_variations)) + 1]
           first     == step % Len(Rev_variations) = 0
           last      == step % Len(Rev_variations) = Len(Rev_variations) - 1
       IN  IF ~(Rev_reads(param) \subseteq base_data.columns)
           THEN /\ outcome' = "KeyError"
                /\ UNCHANGED <<base_data, modified_data, param_results, results, step>>
           ELSE LET it  == Rev_iteration(base_data, param, variation)
                    pc  == PercentChange(Rev_revenue(it.modified), base_total)
                    prs == Append(IF first THEN <<>> ELSE param_results, pc)
                IN  /\ base_data' = it.base
                    /\ modified_data' = it.modified
                    /\ param_results' = prs
                    /\ results' = IF last THEN Store(results, param, prs) ELSE results
                    /\ step' = step + 1
                    /\ outcome' = IF step + 1 = Len(Rev_parameters) * Len(Rev_variations)
                                  THEN "returned" ELSE "running"
    /\ UNCHANGED <<rng, routine, baseline, base_total, table, arg, csv>>

\* csv = data.to_csv(index=False) for the download button
Rev_export ==
    /\ routine = "Rev_perform_sensitivity_analysis"
    /\ outcome = "returned"
    /\ csv' = to_csv(base_data)
    /\ outcome' = "exported"
    /\ UNCHANGED <<rng, routine, baseline, base_data, modified_data, base_total,
                   param_results, results, table, step, arg>>

(***************************************************************************)
(* code-v3 revenue: sensitivity_analysis(base_data) and the script's table *)
(***************************************************************************)
RevV3_enter(df) == Enter("RevV3_sensitivity_analysis", df, Empty, Zero, "running")

\* the script: data = generate_sample_data(quarters); sensitivity_analysis(data)
RevV3_script ==
    /\ routine = "idle"
    /\ \E base_date \in Today, quarters \in 0 .. MaxQuarters :
          LET g == RevV3_generate_sample_data(rng, base_date, quarters)
          IN  /\ rng' = g.rng
              /\ RevV3_enter(g.data)

RevV3_call ==
    /\ routine = "idle"
    /\ \E df \in Rev_supplied_frames : RevV3_enter(df)
    /\ UNCHANGED rng

RevV3_step ==
    /\ routine = "RevV3_sensitivity_analysis"
    /\ outcome = "running"
    /\ LET param     == RevV3_parameters[(step \div Len(RevV3_variations)) + 1]
           variation == RevV3_variations[(step % Len(RevV3_variations)) + 1]
       IN  IF ~(RevV3_reads(param) \subseteq base_data.columns)
           THEN /\ outcome' = "KeyError"
                /\ UNCHANGED <<base_data, modified_data, results, step>>
           ELSE LET it == RevV3_iteration(base_data, param, variation)
                IN  /\ base_data' = it.base
                    /\ modified_data' = it.modified
                    /\ results' = Append(results,
                                         [parameter |-> param,
                                          variation |-> variation,
                                          revenue   |-> RevV3_total_revenue(it.modified)])
                    /\ step' = step + 1
                    /\ outcome' = IF step + 1 = Len(RevV3_parameters) * Len(RevV3_variations)
                                  THEN "returned" ELSE "running"
    /\ UNCHANGED <<rng, routine, baseline, base_total, param_results, table, arg, csv>>

\* base_forecast = data['revenueForecast'].sum() and the percentage table
RevV3_render ==
    /\ routine = "RevV3_sensitivity_analysis"
    /\ outcome = "returned"
    /\ IF "revenueForecast" \in base_data.columns
       THEN /\ base_total' = ColumnSum(base_data, "revenueForecast")
            /\ table' = RevV3_sensitivity_table(results, base_total')
            /\ outcome' = "rendered"
       ELSE /\ outcome' = "KeyError"
            /\ UNCHANGED <<base_total, table>>
    /\ UNCHANGED <<rng, routine, baseline, base_data, modified_data, param_results,
                   results, step, arg, csv>>

\* csv = data.to_csv(index=False) for the download button
RevV3_export ==
    /\ routine = "RevV3_sensitivity_analysis"
    /\ outcome = "rendered"
    /\ csv' = to_csv(base_data)
    /\ outcome' = "exported"
    /\ UNCHANGED <<rng, routine, baseline, base_data, modified_data, base_total,
                   param_results, results, table, step, arg>>

(***************************************************************************)
(* code-v3 expense: sensitivity_analysis(base_data)                        *)
(***************************************************************************)
ExpV3_enter(df) ==
    IF "totalExpenses" \in df.columns
    THEN Enter("ExpV3_sensitivity_analysis", df, Empty,
               ColumnSum(df, "totalExpenses"), "running")
    ELSE Enter("ExpV3_sensitivity_analysis", df, Empty, Zero, "KeyError")

ExpV3_script ==
    /\ routine = "idle"
    /\ \E base_date \in Today, quarters \in 0 .. MaxQuarters :
          LET g == ExpV3_generate_sample_data(rng, base_date, quarters)
          IN  /\ rng' = g.rng
              /\ ExpV3_enter(g.data)

ExpV3_call ==
    /\ routine = "idle"
    /\ \E df \in ExpV3_supplied_frames : ExpV3_enter(df)
    /\ UNCHANGED rng

ExpV3_step ==
    /\ routine = "ExpV3_sensitivity_analysis"
    /\ outcome = "running"
    /\ LET param     == ExpV3_parameters[(step \div Len(ExpV3_variations)) + 1]
           variation == ExpV3_variations[(step % Len(ExpV3_variations)) + 1]
       IN  IF ~({ExpV3_parameters[k] : k \in DOMAIN ExpV3_parameters} \subseteq base_data.columns)
           THEN /\ outcome' = "KeyError"
                /\ UNCHANGED <<base_data, modified_data, results, step>>
           ELSE LET it == ExpV3_iteration(base_data, param, variation)
                    total_expenses == ColumnSum(it.modified, "totalExpenses")
                IN  /\ base_data' = it.base
                    /\ modified_data' = it.modified
                    /\ results' = Append(results,
                                    [parameter     |-> param,
                                     variation     |-> variation,
                                     percentChange |->
                                        ExpV3_percent_change(total_expenses, base_total, param)])
                    /\ step' = step + 1
                    /\ outcome' = IF step + 1 = Len(ExpV3_parameters) * Len(ExpV3_variations)
                                  THEN "returned" ELSE "running"
    /\ UNCHANGED <<rng, routine, baseline, base_total, param_results, table, arg, csv>>

\* base_expenses * (1 + percentChange.min() / 100), and the same of max()
ExpV3_card(base_expenses, percent_change) ==
    Mul(base_expenses, Add(One, Div(percent_change, Hundred)))

\* The Forecast Summary: base_expenses = data['totalExpenses'].sum() and the cards
ExpV3_render ==
    /\ routine = "ExpV3_sensitivity_analysis"
    /\ outcome = "returned"
    /\ LET base_expenses  == ColumnSum(base_data, "totalExpenses")
           percentChange  == [k \in DOMAIN results |-> results[k].percentChange]
       IN  table' = [base_expenses |-> base_expenses,
                     min_expenses  |-> ExpV3_card(base_expenses, SeriesMin(percentChange)),
                     max_expenses  |-> ExpV3_card(base_expenses, SeriesMax(percentChange))]
    /\ outcome' = "rendered"
    /\ UNCHANGED <<rng, routine, baseline, base_data, modified_data, base_total,
                   param_results, results, step, arg, csv>>

\* csv = data.to_csv(index=False) for the download button
ExpV3_export ==
    /\ routine = "ExpV3_sensitivity_analysis"
    /\ outcome = "rendered"
    /\ csv' = to_csv(base_data)
    /\ outcome' = "exported"
    /\ UNCHANGED <<rng, routine, baseline, base_data, modified_data, base_total,
                   param_results, results, table, step, arg>>

(***************************************************************************)
(* forecast_pkg/cashflow_dashboard.py: sensitivity_analysis                *)
(***************************************************************************)
Cash_variation_percentages == {10, 20}

\* cashflow_forecast_dashboard: data = generate_realistic_sample_data(), then
\* sensitivity_analysis(data) with the default variation_percentage
Cash_dashboard ==
    /\ routine = "idle"
    /\ LET g == generate_realistic_sample_data(rng)
       IN  /\ rng' = g.rng
           /\ Enter("Cash_sensitivity_analysis", g.data, 10, Zero, "running")

Cash_call ==
    /\ routine = "idle"
    /\ \E data \in Cash_supplied_lists, variation_percentage \in Cash_variation_percentages :
          Enter("Cash_sensitivity_analysis", data, variation_percentage, Zero, "running")
    /\ UNCHANGED rng

\* x / total raises ZeroDivisionError when total is a Python number (the sum of an
\* empty list is the int 0); a float64 total gives inf or nan.
Cash_raises_zero_division(data, total) ==
    IsZero(total) /\ (data.dtype = "float" \/ data.rows = <<>>)

\* One iteration of the parameter loop.
Cash_step ==
    /\ routine = "Cash_sensitivity_analysis"
    /\ outcome = "running"
    /\ LET param == Cash_parameters[step + 1]
       IN  IF Cash_missing(base_data.rows, {param} \cup Cash_reads)
           THEN /\ outcome' = "KeyError"
                /\ UNCHANGED <<base_data, modified_data, base_total, results, step>>
           ELSE LET it == Cash_iteration(base_data, param, arg)
                    total_base_net_cashflow == Cash_total(calculate_cashflow(it.base.rows, 0))
                    total_increased_net_cashflow == Cash_total(calculate_cashflow(it.increased, 0))
                    total_decreased_net_cashflow == Cash_total(calculate_cashflow(it.decreased, 0))
                IN  /\ base_data' = it.base
                    /\ modified_data' = [increased |-> it.increased, decreased |-> it.decreased]
                    /\ base_total' = total_base_net_cashflow
                    /\ IF Cash_raises_zero_division(it.base, total_base_net_cashflow)
                       THEN /\ outcome' = "ZeroDivisionError"
                            /\ UNCHANGED <<results, step>>
                       ELSE /\ results' = Store(results, param,
                                    [increased |-> PercentChange(total_increased_net_cashflow,
                                                                 total_base_net_cashflow),
                                     decreased |-> PercentChange(total_decreased_net_cashflow,
                                                                 total_base_net_cashflow)])
                            /\ step' = step + 1
                            /\ outcome' = IF step + 1 = Len(Cash_parameters)
                                          THEN "returned" ELSE "running"
    /\ UNCHANGED <<rng, routine, baseline, param_results, table, arg, csv>>

(***************************************************************************)
(* forecast_pkg/expense_dashboard.py: perform_expense_sensitivity_analysis *)
(***************************************************************************)
\* expense_forecast_dashboard: data = generate_expense_sample_data(quarters), then
\* perform_expense_sensitivity_analysis(), which takes no argument
Exp_dashboard ==
    /\ routine = "idle"
    /\ \E quarters \in 0 .. MaxQuarters :
          LET g == generate_expense_sample_data(rng, quarters)
          IN  /\ rng' = g.rng
              /\ Enter("Exp_perform_expense_sensitivity_analysis", g.data, Empty,
                       IF quarters = 0 THEN Zero ELSE ColumnSum(g.data, "baseForecast"),
                       "running")

\* One cell of the parameter x variation loops: two draws.
Exp_step ==
    /\ routine = "Exp_perform_expense_sensitivity_analysis"
    /\ outcome = "running"
    /\ LET param     == Exp_parameters[(step \div Len(Exp_variations)) + 1]
           variation == Exp_variations[(step % Len(Exp_variations)) + 1]
           first     == step % Len(Exp_variations) = 0
           prs       == Append(IF first THEN <<>> ELSE results[param], Exp_effect(rng, variation))
       IN  /\ results' = Store(results, param, prs)
           /\ rng' = Advance(rng, 2)
           /\ step' = step + 1
           /\ outcome' = IF step + 1 = Len(Exp_parameters) * Len(Exp_variations)
                         THEN "returned" ELSE "running"
    /\ UNCHANGED <<routine, baseline, base_data, modified_data, base_total, param_results,
                   table, arg, csv>>

(***************************************************************************)
(* forecast_pkg/balance_sheet_dashboard.py: sensitivity_analysis           *)
(***************************************************************************)
\* sum of balanceSheetTotal over calculate_balance_sheet(data, variation_percentage)
Bal_total(data, variation_percentage) ==
    LET bs == calculate_balance_sheet(data, variation_percentage)
    IN  SumSeq([i \in DOMAIN bs |-> bs[i].balanceSheetTotal])

\* balance_sheet_forecast_dashboard: data = generate_sample_data(), the base balance
\* sheet, then sensitivity_analysis(), which takes no argument
Bal_dashboard ==
    /\ routine = "idle"
    /\ LET g == Bal_generate_sample_data(rng)
       IN  /\ rng' = g.rng
           /\ Enter("Bal_sensitivity_analysis", g.data, Empty, Bal_total(g.data, 0), "running")

\* One iteration of the parameter loop: four draws.
Bal_step ==
    /\ routine = "Bal_sensitivity_analysis"
    /\ outcome = "running"
    /\ results' = Store(results, Bal_parameters[step + 1],
                        [increased |-> Bal_impact(rng),
                         decreased |-> Bal_impact(Advance(rng, 2))])
    /\ rng' = Advance(rng, 4)
    /\ step' = step + 1
    /\ outcome' = IF step + 1 = Len(Bal_parameters) THEN "returned" ELSE "running"
    /\ UNCHANGED <<routine, baseline, base_data, modified_data, base_total, param_results,
                   table, arg, csv>>

(***************************************************************************)
(* code-v3 forecast: perform_sensitivity_analysis(data, column)            *)
(* (the st.cache_data memo of get_forecast_data is not modelled: every run *)
(* of the script generates the data)                                       *)
(***************************************************************************)
Fc_script_columns == {"revenue", "expenses", "net_cash_flow", "assets"}

Fc_script ==
    /\ routine = "idle"
    /\ \E years \in 0 .. 1, periods_per_year \in 1 .. MaxQuarters, column \in Fc_script_columns :
          LET g == generate_forecast_data(years, periods_per_year)
          IN  /\ rng' = g.rng
              /\ Enter("Fc_perform_sensitivity_analysis", g.data, column, Zero, "running")

Fc_call ==
    /\ routine = "idle"
    /\ \E df \in Fc_supplied_frames :
          Enter("Fc_perform_sensitivity_analysis", df, "revenue", Zero, "running")
    /\ UNCHANGED rng

\* One iteration of the loop over variations.
Fc_step ==
    /\ routine = "Fc_perform_sensitivity_analysis"
    /\ outcome = "running"
    /\ LET var == Fc_variations[step + 1]
       IN  IF arg \notin base_data.columns
           THEN /\ outcome' = "KeyError"
                /\ UNCHANGED <<modified_data, results, step>>
           ELSE /\ modified_data' = [i \in DOMAIN base_data.rows |->
                                        Mul(base_data.rows[i][arg], Add(One, Frac(var, 1000)))]
                /\ results' = Append(results, [variation |-> var,
                                               value     |-> Fc_value(base_data, arg, var)])
                /\ step' = step + 1
                /\ outcome' = IF step + 1 = Len(Fc_variations) THEN "returned" ELSE "running"
    /\ UNCHANGED <<rng, routine, baseline, base_data, base_total, param_results, table, arg, csv>>

(***************************************************************************)
(* code-v2/cfo-dashboard-streamlit-2.5.py: the overview script             *)
(***************************************************************************)
\* data = generate_quarterly_data(years); df = pd.DataFrame(data); the metric cards
\* read latest = df.iloc[-1] and previous = df.iloc[-2]; csv = df.to_csv(index=False).
\* (the script passes years = 2)
V2_script ==
    /\ routine = "idle"
    /\ \E base_date \in Today, years \in 0 .. MaxYears :
          LET g  == generate_quarterly_data(rng, base_date, years)
              df == DataFrame(g.data)
              n  == Len(df.rows)
          IN  /\ rng' = g.rng
              /\ routine' = "V2_overview"
              /\ baseline' = df
              /\ base_data' = df
              /\ arg' = [base_date |-> base_date, years |-> years]
              /\ IF n < 2
                 THEN /\ outcome' = "IndexError"
                      /\ table' = Empty
                      /\ csv' = Empty
                 ELSE /\ outcome' = "exported"
                      /\ table' = [latest |-> df.rows[n], previous |-> df.rows[n - 1]]
                      /\ csv' = to_csv(df)
    /\ modified_data' = Empty
    /\ base_total' = Zero
    /\ param_results' = Empty
    /\ results' = Empty
    /\ step' = 0

(***************************************************************************)
(* Calls of the seeded generators: code-v3 generate_forecast_data and      *)
(* code-v2 generate_data (the st.cache_data memo is not modelled: every    *)
(* call executes the body).  arg keeps the arguments of the call.          *)
(***************************************************************************)
Fc_generate ==
    /\ routine = "idle"
    /\ \E years \in 0 .. 1, periods_per_year \in 1 .. MaxQuarters :
          LET g == generate_forecast_data(years, periods_per_year)
          IN  /\ rng' = g.rng
              /\ Enter("generate_forecast_data", g.data,
                       [years |-> years, periods_per_year |-> periods_per_year],
                       Zero, "returned")

V2c_generate ==
    /\ routine = "idle"
    /\ \E base_date \in Today, days \in 0 .. MaxDays :
          LET g == generate_data(rng, base_date, days)
          IN  /\ rng' = g.rng
              /\ Enter("generate_data", g.data, [base_date |-> base_date, days |-> days],
                       Zero, "returned")

(***************************************************************************)
(* The run of a script ends: its table is rendered, or its exception is    *)
(* reported.  Streamlit reruns scripts in the same process, the random     *)
(* generator keeping its state.                                            *)
(***************************************************************************)
\* Routines whose script derives a table after the routine returned.
Rendering == {"RevV3_sensitivity_analysis", "ExpV3_sensitivity_analysis"}

\* Routines whose script offers the baseline as a CSV download at its end.
Exporting ==
    {"Rev_perform_sensitivity_analysis", "RevV3_sensitivity_analysis",
     "ExpV3_sensitivity_analysis"}

Raised == outcome \in {"KeyError", "ZeroDivisionError", "IndexError"}

Finished ==
    \/ outcome = "exported"
    \/ Raised
    \/ (outcome = "returned" /\ routine \notin Rendering \cup Exporting)

Rerun ==
    /\ Finished
    /\ Enter("idle", Empty, Empty, Zero, "none")
    /\ UNCHANGED rng

Next ==
    \/ Rev_dashboard
    \/ Rev_call
    \/ Rev_step
    \/ Rev_export
    \/ RevV3_script
    \/ RevV3_call
    \/ RevV3_step
    \/ RevV3_render
    \/ RevV3_export
    \/ ExpV3_script
    \/ ExpV3_call
    \/ ExpV3_step
    \/ ExpV3_render
    \/ ExpV3_export
    \/ Cash_dashboard
    \/ Cash_call
    \/ Cash_step
    \/ Exp_dashboard
    \/ Exp_step
    \/ Bal_dashboard
    \/ Bal_step
    \/ Fc_script
    \/ Fc_call
    \/ Fc_step
    \/ Fc_generate
    \/ V2c_generate
    \/ V2_script
    \/ Rerun

Spec == Init /\ [][Next]_vars

(***************************************************************************)
(* Properties                                                              *)
(***************************************************************************)
\* The position of level 0 in the list of variations
LevelZero(variations) == CHOOSE i \in DOMAIN variations : variations[i] = 0

Returned(r) == routine = r /\ outcome = "returned"

\* C1: for every baseline with a non-zero aggregate and every parameter, the impact
\* computed at perturbation level 0 is exactly 0: in perform_sensitivity_analysis of
\* forecast_pkg/revenue_dashboard (direct and special-case parameters), in the code-v3
\* revenue table and in the code-v3 expense sensitivity_analysis.
C1_LevelZeroImpactIsZero ==
    /\ (routine = "Rev_perform_sensitivity_analysis" /\ ~IsZero(base_total)) =>
          /\ \A p \in DOMAIN results : results[p][LevelZero(Rev_variations)] = Zero
          /\ Len(param_results) >= LevelZero(Rev_variations) =>
                param_results[LevelZero(Rev_variations)] = Zero
    /\ (routine = "RevV3_sensitivity_analysis" /\ outcome = "rendered" /\ ~IsZero(base_total)) =>
          \A p \in DOMAIN table : table[p][0] = Zero
    /\ (routine = "ExpV3_sensitivity_analysis" /\ ~IsZero(base_total)) =>
          \A i \in DOMAIN results :
              results[i].variation = 0 => results[i].percentChange = Zero

\* C1 witness: the code-v3 revenue table of a generated two-quarter baseline is rendered,
\* with a non-zero impact away from level 0.
C1_Witness ==
    /\ routine = "RevV3_sensitivity_analysis"
    /\ outcome = "rendered"
    /\ Len(baseline.rows) = MaxQuarters
    /\ ~IsZero(base_total)
    /\ DOMAIN table = {RevV3_parameters[k] : k \in DOMAIN RevV3_parameters}
    /\ table["topChannelValue"][10] # Zero
    /\ table["topChannelValue"][0] = Zero

\* The entries of a result dictionary other than its two perturbed ones
UnperturbedEntries(r) == (DOMAIN r) \ {"increased", "decreased"}

\* C2: in perform_expense_sensitivity_analysis of forecast_pkg/expense_dashboard the
\* impact at level 0 is exactly 0 for every parameter whatever the random draws, and
\* the result dictionaries of the cashflow and balance-sheet sensitivity_analysis hold,
\* for every parameter, an entry for level 0 whose impact is exactly 0.
C2_LevelZeroEntryIsZero ==
    /\ Returned("Exp_perform_expense_sensitivity_analysis") =>
          \A p \in DOMAIN results : results[p][LevelZero(Exp_variations)] = Zero
    /\ (Returned("Cash_sensitivity_analysis") \/ Returned("Bal_sensitivity_analysis")) =>
          \A p \in DOMAIN results :
              \E e \in UnperturbedEntries(results[p]) : results[p][e] = Zero

\* rows with field A multiplied by (1 + L/100) in every period
Perturbed(rows, A, L) ==
    [i \in DOMAIN rows |-> [rows[i] EXCEPT ![A] = Mul(@, Add(One, Frac(L, 100)))]]

\* (aggregate(perturbed) - aggregate(baseline)) / aggregate(baseline) * 100
Impact(perturbed_aggregate, baseline_aggregate) ==
    Div(Mul(Sub(perturbed_aggregate, baseline_aggregate), Hundred), baseline_aggregate)

\* The perturbation levels a balance-sheet impact may stand for
Bal_levels == 1 .. 20

\* C3: the impacts a routine returns are the percentage change of the aggregate
\* computed from the baseline under the perturbation; in particular the expense
\* impacts scale with the level by a share of the baseline total between 0 and 1,
\* and the balance-sheet impacts are the percentage change of the balance sheet
\* total of the generated data under some level of increase and decrease.
C3_ImpactsComeFromBaseline ==
    /\ Returned("Exp_perform_expense_sensitivity_analysis") =>
          \A p \in DOMAIN results :
              LET share == Div(results[p][Len(Exp_variations)],
                               Num(Exp_variations[Len(Exp_variations)]))
              IN  /\ ~Less(share, Zero)
                  /\ ~Less(One, share)
                  /\ \A i \in DOMAIN results[p] :
                        results[p][i] = Mul(Num(Exp_variations[i]), share)
    /\ Returned("Bal_sensitivity_analysis") =>
          \E L \in Bal_levels :
              \A p \in DOMAIN results :
                  /\ results[p].increased =
                        Impact(Bal_total(Perturbed(baseline, p, L), 0), Bal_total(baseline, 0))
                  /\ results[p].decreased =
                        Impact(Bal_total(Perturbed(baseline, p, -L), 0), Bal_total(baseline, 0))

\* C4: the routines that take a baseline (perform_sensitivity_analysis of
\* forecast_pkg/revenue_dashboard, the cashflow sensitivity_analysis, the code-v3
\* revenue and expense sensitivity_analysis) never change it: at every step its records
\* equal the ones passed in, and the revenue aggregate read from it after the call
\* equals the one read before.
C4_BaselineNotMutated ==
    /\ routine \in {"Rev_perform_sensitivity_analysis", "RevV3_sensitivity_analysis",
                    "ExpV3_sensitivity_analysis", "Cash_sensitivity_analysis"} =>
          base_data = baseline
    /\ Returned("Rev_perform_sensitivity_analysis") =>
          ColumnSum(base_data, "revenueForecast") = base_total
    /\ Returned("Cash_sensitivity_analysis") =>
          Cash_total(calculate_cashflow(base_data.rows, 0)) = base_total

\* C4 witness: the cashflow routine returned after perturbing a field of two quarters.
C4_Witness ==
    /\ Returned("Cash_sensitivity_analysis")
    /\ Len(baseline.rows) = 2
    /\ modified_data.decreased # baseline.rows
    /\ modified_data.decreased[1].fxRate # baseline.rows[1].fxRate

\* The parameter of the iteration that built modified_data
Rev_last_param == Rev_parameters[((step - 1) \div Len(Rev_variations)) + 1]

Rev_last_variation == Rev_variations[((step - 1) % Len(Rev_variations)) + 1]

Cash_iterated == routine = "Cash_sensitivity_analysis" /\ modified_data # Empty

Cash_last_param ==
    IF outcome = "ZeroDivisionError" THEN Cash_parameters[step + 1] ELSE Cash_parameters[step]

\* modified holds, in every period, the baseline's value of every field outside changed
SameOutside(modified, rows, changed) ==
    /\ DOMAIN modified = DOMAIN rows
    /\ \A i \in DOMAIN rows :
          /\ DOMAIN modified[i] = DOMAIN rows[i]
          /\ \A B \in (DOMAIN rows[i]) \ changed : modified[i][B] = rows[i][B]

\* C5 (as stated): the perturbed series built for parameter A keeps every other field
\* B at its baseline value in every period, for all six parameters of the revenue
\* perform_sensitivity_analysis and all fifteen of the cashflow sensitivity_analysis.
C5_Isolation ==
    /\ (routine = "Rev_perform_sensitivity_analysis" /\ step > 0) =>
          SameOutside(modified_data.rows, baseline.rows, {Rev_last_param})
    /\ Cash_iterated =>
          /\ SameOutside(modified_data.increased, baseline.rows, {Cash_last_param})
          /\ SameOutside(modified_data.decreased, baseline.rows, {Cash_last_param})

\* The one field the revenue routine scales for parameter A
C5_changed(A) ==
    CASE A = "customerAcquisitionCost" -> "newPromotionRevenue"
      [] A = "customerLifetimeValue"   -> "monthlyRecurringRevenue"
      [] A = "inventoryTurnover"       -> "topChannelValue"
      [] OTHER                         -> A

\* C5 (amended): the perturbed series built for parameter A differs from the baseline
\* in one field only: A itself for the three direct revenue parameters and for all
\* fifteen cashflow parameters; newPromotionRevenue, monthlyRecurringRevenue and
\* topChannelValue for customerAcquisitionCost, customerLifetimeValue and
\* inventoryTurnover, whose own columns stay at their baseline values.
C5_IsolationOutsideScaledField ==
    /\ (routine = "Rev_perform_sensitivity_analysis" /\ step > 0) =>
          SameOutside(modified_data.rows, baseline.rows, {C5_changed(Rev_last_param)})
    /\ Cash_iterated =>
          /\ SameOutside(modified_data.increased, baseline.rows, {Cash_last_param})
          /\ SameOutside(modified_data.decreased, baseline.rows, {Cash_last_param})

\* C5 witness: the iteration for customerAcquisitionCost at a non-zero level scaled
\* newPromotionRevenue of a two-quarter baseline.
C5_Witness ==
    /\ routine = "Rev_perform_sensitivity_analysis"
    /\ step > 0
    /\ Rev_last_param = "customerAcquisitionCost"
    /\ Rev_last_variation = 20
    /\ Len(baseline.rows) = MaxQuarters
    /\ baseline.columns = Rev_columns
    /\ modified_data.rows[1].newPromotionRevenue # baseline.rows[1].newPromotionRevenue
    /\ modified_data.rows[1].customerAcquisitionCost = baseline.rows[1].customerAcquisitionCost

\* C6: with a non-zero baseline aggregate, every impact of the cashflow
\* sensitivity_analysis and of the code-v3 revenue table equals
\* (aggregate(perturbed) - aggregate(baseline)) / aggregate(baseline) * 100, perturbed
\* being the baseline with the parameter multiplied by (1 + L/100) in every period and
\* the aggregate the sum over the periods of netCashflow, respectively of
\* topChannelValue + 3 * monthlyRecurringRevenue + newPromotionRevenue.
C6_ImpactIsPercentChange ==
    /\ routine = "Cash_sensitivity_analysis" =>
          LET agg(rows) == Cash_total(calculate_cashflow(rows, 0))
              base      == agg(baseline.rows)
          IN  \A p \in DOMAIN results :
                  ~IsZero(base) =>
                     /\ results[p].increased = Impact(agg(Perturbed(baseline.rows, p, arg)), base)
                     /\ results[p].decreased = Impact(agg(Perturbed(baseline.rows, p, -arg)), base)
    /\ (routine = "RevV3_sensitivity_analysis" /\ outcome = "rendered") =>
          LET agg(rows) == RevV3_total_revenue([baseline EXCEPT !.rows = rows])
          IN  \A p \in DOMAIN table : \A L \in DOMAIN table[p] :
                  ~IsZero(agg(baseline.rows)) =>
                     table[p][L] =
                        Impact(agg(Perturbed(baseline.rows, p, L)), agg(baseline.rows))

\* C6 witness: the code-v3 revenue table of a two-quarter baseline is rendered with a
\* non-zero impact of monthlyRecurringRevenue at level -20.
C6_Witness ==
    /\ routine = "RevV3_sensitivity_analysis"
    /\ outcome = "rendered"
    /\ Len(baseline.rows) = MaxQuarters
    /\ ~IsZero(base_total)
    /\ IsFinite(table["monthlyRecurringRevenue"][-20])
    /\ table["monthlyRecurringRevenue"][-20] # Zero

\* C7: when the baseline aggregate is 0 the routine fails with a division-by-zero
\* error: it never returns a table that holds an infinite or NaN impact.
C7_ZeroAggregateRaises ==
    /\ Returned("Rev_perform_sensitivity_analysis") =>
          \A p \in DOMAIN results : \A i \in DOMAIN results[p] : IsFinite(results[p][i])
    /\ Returned("Cash_sensitivity_analysis") =>
          \A p \in DOMAIN results :
              IsFinite(results[p].increased) /\ IsFinite(results[p].decreased)
    /\ (routine = "Rev_perform_sensitivity_analysis" /\ Finished
        /\ Rev_direct \cup {"revenueForecast"} \subseteq baseline.columns
        /\ IsZero(ColumnSum(baseline, "revenueForecast"))) =>
          outcome = "ZeroDivisionError"

\* C8: a baseline that lacks the field of a parameter the routine perturbs makes the
\* call fail with a missing-field error: for each of the fifteen cashflow parameters
\* and each of the six revenue parameters.
C8_MissingFieldRaises ==
    /\ (routine = "Rev_perform_sensitivity_analysis" /\ Finished
        /\ \E k \in DOMAIN Rev_parameters : Rev_parameters[k] \notin baseline.columns) =>
          outcome = "KeyError"
    /\ (routine = "Cash_sensitivity_analysis" /\ Finished
        /\ \E k \in DOMAIN Cash_parameters : Cash_missing(baseline.rows, {Cash_parameters[k]})) =>
          outcome = "KeyError"

\* C9: a baseline with zero periods makes the routine fail with an error instead of
\* returning a table of zeros or NaN: the cashflow sensitivity_analysis on the empty
\* list, the revenue perform_sensitivity_analysis on an empty frame, and the code-v3
\* perform_sensitivity_analysis on an empty column.
C9_EmptySeriesRaises ==
    (/\ routine \in {"Cash_sensitivity_analysis", "Rev_perform_sensitivity_analysis",
                     "Fc_perform_sensitivity_analysis"}
     /\ Finished
     /\ baseline.rows = <<>>) => Raised

\* The weight of a direct revenue parameter in revenueForecast
C10_weight(f) == IF f = "monthlyRecurringRevenue" THEN 3 ELSE 1

\* C10: for the direct parameters of the revenue perform_sensitivity_analysis and a
\* baseline with a non-zero revenueForecast total,
\* impact(f, L) = L * w * sum(f) / sum(revenueForecast) with w = 1, 3, 1 for
\* topChannelValue, monthlyRecurringRevenue, newPromotionRevenue; hence
\* impact(f, 20) = 2 * impact(f, 10) and impact(f, -L) = -impact(f, L).
C10_DirectImpactIsLinear ==
    (/\ routine = "Rev_perform_sensitivity_analysis"
     /\ "revenueForecast" \in baseline.columns
     /\ ~IsZero(ColumnSum(baseline, "revenueForecast"))) =>
        \A f \in (DOMAIN results) \cap Rev_direct :
            /\ \A i \in DOMAIN Rev_variations :
                  results[f][i] =
                     Div(Mul(Num(Rev_variations[i] * C10_weight(f)), ColumnSum(baseline, f)),
                         ColumnSum(baseline, "revenueForecast"))
            /\ results[f][5] = Mul(Num(2), results[f][4])
            /\ results[f][1] = Neg(results[f][5])
            /\ results[f][2] = Neg(results[f][4])

\* C10 witness: the routine returned for a generated two-quarter baseline, the impact of
\* monthlyRecurringRevenue at level 20 not being 0.
C10_Witness ==
    /\ Returned("Rev_perform_sensitivity_analysis")
    /\ Len(baseline.rows) = MaxQuarters
    /\ baseline.columns = Rev_columns
    /\ baseline.rows[1].customerAcquisitionCost # Num(1500)
    /\ ~IsZero(base_total)
    /\ results["monthlyRecurringRevenue"][5] # Zero

\* The scenario's baseline as the cashflow routine takes it: in each period revenue
\* (salesRevenue) 100 and cost (rawMaterialCosts) 40, collected and paid within the
\* quarter, every other amount 0
C11_baseline(n) == Cash_supplied_rows([i \in 1 .. n |-> <<100, 40>>])

\* C11: with a baseline of 2 periods each {revenue: 100, cost: 40} (aggregate
\* sum(revenue) - sum(cost) = 120), perturbing revenue by +10 gives the impact exactly
\* 50/3 percent and perturbing cost by +10 gives exactly -20/3 percent.
C11_Scenario ==
    (/\ routine = "Cash_sensitivity_analysis"
     /\ baseline.rows = C11_baseline(2)
     /\ arg = 10) =>
        LET perturbed_aggregate == Cash_total(calculate_cashflow(modified_data.increased, 0))
        IN  /\ step > 0 => base_total = Num(120)
            /\ (step > 0 /\ Cash_parameters[step] = "salesRevenue") =>
                  perturbed_aggregate = Num(140)
            /\ (step > 0 /\ Cash_parameters[step] = "rawMaterialCosts") =>
                  perturbed_aggregate = Num(112)
            /\ "salesRevenue" \in DOMAIN results =>
                  results["salesRevenue"].increased = Frac(50, 3)
            /\ "rawMaterialCosts" \in DOMAIN results =>
                  results["rawMaterialCosts"].increased = Frac(-20, 3)

\* C11 witness: the scenario ran to its end.
C11_Witness ==
    /\ Returned("Cash_sensitivity_analysis")
    /\ baseline.rows = C11_baseline(2)
    /\ arg = 10
    /\ results["salesRevenue"].increased = Frac(50, 3)
    /\ results["rawMaterialCosts"].increased = Frac(-20, 3)

\* C12: perturbations never carry over: in every iteration of the parameter x level
\* loops of the revenue perform_sensitivity_analysis and of the code-v3 revenue and
\* expense sensitivity_analysis the working series is the pristine baseline with the
\* one scaling of that iteration, and every recorded result for (p, L) is the one an
\* iteration on the pristine baseline alone gives, whatever was processed before it.
C12_NoCarryOver ==
    /\ (routine = "Rev_perform_sensitivity_analysis" /\ step > 0) =>
          /\ modified_data = Rev_iteration(baseline, Rev_last_param, Rev_last_variation).modified
          /\ \A p \in DOMAIN results : \A i \in DOMAIN results[p] :
                results[p][i] =
                   PercentChange(Rev_revenue(Rev_iteration(baseline, p, Rev_variations[i]).modified),
                                 ColumnSum(baseline, "revenueForecast"))
    /\ (routine = "RevV3_sensitivity_analysis" /\ step > 0) =>
          /\ modified_data = RevV3_iteration(baseline, results[step].parameter,
                                             results[step].variation).modified
          /\ \A k \in DOMAIN results :
                results[k].revenue =
                   RevV3_total_revenue(RevV3_iteration(baseline, results[k].parameter,
                                                       results[k].variation).modified)
    /\ (routine = "ExpV3_sensitivity_analysis" /\ step > 0) =>
          /\ modified_data = ExpV3_iteration(baseline, results[step].parameter,
                                             results[step].variation).modified
          /\ \A k \in DOMAIN results :
                results[k].percentChange =
                   ExpV3_percent_change(
                      ColumnSum(ExpV3_iteration(baseline, results[k].parameter,
                                                results[k].variation).modified, "totalExpenses"),
                      ColumnSum(baseline, "totalExpenses"), results[k].parameter)

\* C12 witness: the code-v3 expense routine returned for a generated two-quarter
\* baseline, its last iteration following 29 others, 24 of them at a non-zero level.
C12_Witness ==
    /\ Returned("ExpV3_sensitivity_analysis")
    /\ Len(baseline.rows) = MaxQuarters
    /\ Len(results) = Len(ExpV3_parameters) * Len(ExpV3_variations)
    /\ baseline.rows[1].payrollCosts # baseline.rows[2].payrollCosts
    /\ results[1].percentChange # Zero
    /\ results[Len(results)].percentChange # Zero

\* C13: the special cases of the revenue perform_sensitivity_analysis are these
\* transforms, for every baseline and level L: customerAcquisitionCost at L has the
\* impact of newPromotionRevenue at -L; customerLifetimeValue at L has the impact of
\* monthlyRecurringRevenue at L; inventoryTurnover at L has half the impact of
\* topChannelValue at L.
C13_SpecialCaseTransforms ==
    Returned("Rev_perform_sensitivity_analysis") =>
        \A i \in DOMAIN Rev_variations :
            LET opposite == CHOOSE j \in DOMAIN Rev_variations :
                               Rev_variations[j] = -Rev_variations[i]
            IN  /\ results["customerAcquisitionCost"][i] = results["newPromotionRevenue"][opposite]
                /\ results["customerLifetimeValue"][i] = results["monthlyRecurringRevenue"][i]
                /\ results["inventoryTurnover"][i] = Div(results["topChannelValue"][i], Num(2))

\* C13 witness: the routine returned for a generated two-quarter baseline with non-zero
\* impacts of the three special-case parameters at level 20.
C13_Witness ==
    /\ Returned("Rev_perform_sensitivity_analysis")
    /\ Len(baseline.rows) = MaxQuarters
    /\ IsFinite(results["inventoryTurnover"][5])
    /\ Less(Zero, results["inventoryTurnover"][5])
    /\ Less(results["customerAcquisitionCost"][5], Zero)
    /\ Less(Zero, results["customerLifetimeValue"][5])

\* The position of parameter p in a parameter list
IndexOf(parameters, p) == CHOOSE k \in DOMAIN parameters : parameters[k] = p

\* The table perform_expense_sensitivity_analysis returns when entered in state s
Exp_table(s) ==
    [p \in {Exp_parameters[k] : k \in DOMAIN Exp_parameters} |->
        [i \in DOMAIN Exp_variations |->
            Exp_effect(AdvanceFar(s, 2 * (Len(Exp_variations) * (IndexOf(Exp_parameters, p) - 1)
                                        + (i - 1))),
                       Exp_variations[i])]]

\* The dictionary the balance-sheet sensitivity_analysis returns when entered in state s
Bal_table(s) ==
    [p \in {Bal_parameters[k] : k \in DOMAIN Bal_parameters} |->
        [increased |-> Bal_impact(AdvanceFar(s, 4 * (IndexOf(Bal_parameters, p) - 1))),
         decreased |-> Bal_impact(AdvanceFar(s, 4 * (IndexOf(Bal_parameters, p) - 1) + 2))]]

\* The table the revenue perform_sensitivity_analysis computes from a frame
Rev_table(df) ==
    [p \in {Rev_parameters[k] : k \in DOMAIN Rev_parameters} |->
        [i \in DOMAIN Rev_variations |->
            PercentChange(Rev_revenue(Rev_iteration(df, p, Rev_variations[i]).modified),
                          ColumnSum(df, "revenueForecast"))]]

\* The dictionary the cashflow sensitivity_analysis computes from a list
Cash_table(rows, variation_percentage) ==
    [p \in {Cash_parameters[k] : k \in DOMAIN Cash_parameters} |->
        LET it   == Cash_iteration([rows |-> rows], p, variation_percentage)
            base == Cash_total(calculate_cashflow(rows, 0))
        IN  [increased |-> PercentChange(Cash_total(calculate_cashflow(it.increased, 0)), base),
             decreased |-> PercentChange(Cash_total(calculate_cashflow(it.decreased, 0)), base)]]

\* C14: each sensitivity routine is a deterministic function of its baseline: whatever
\* the state of the process (of its random generator) at the call, the revenue
\* perform_sensitivity_analysis, the cashflow sensitivity_analysis,
\* perform_expense_sensitivity_analysis and the balance-sheet sensitivity_analysis
\* return the one table that belongs to the baseline.
C14_Deterministic ==
    /\ Returned("Rev_perform_sensitivity_analysis") => results = Rev_table(baseline)
    /\ Returned("Cash_sensitivity_analysis") => results = Cash_table(baseline.rows, arg)
    /\ Returned("Exp_perform_expense_sensitivity_analysis") =>
          \A s \in RngStates : results = Exp_table(s)
    /\ Returned("Bal_sensitivity_analysis") =>
          \A s \in RngStates : results = Bal_table(s)

(***************************************************************************)
(* C15: invocations of the sensitivity routines share no mutable state,    *)
(* the process-wide numpy generator included: while a routine executes, no *)
(* step of it changes the generator state that the next invocation reads.  *)
(***************************************************************************)
C15_NoSharedMutableState ==
    [][(routine # "idle" /\ routine' = routine) => rng' = rng]_vars

(***************************************************************************)
(* C19: the three forecasts the cashflow dashboard displays are ordered:   *)
(* for every baseline calculate_cashflow accepts, every quarter's          *)
(* netCashflow and the totals satisfy                                      *)
(* calculate_cashflow(data, -10) <= calculate_cashflow(data, 0)            *)
(*                               <= calculate_cashflow(data, 10).          *)
(***************************************************************************)
\* x <= y, by the sign of y - x
LessEq(x, y) == Sub(y, x).n >= 0

C19_ForecastsOrdered ==
    (/\ routine = "Cash_sensitivity_analysis"
     /\ ~Cash_missing(baseline.rows, Cash_reads)) =>
        LET min_forecast  == calculate_cashflow(baseline.rows, -10)
            base_forecast == calculate_cashflow(baseline.rows, 0)
            max_forecast  == calculate_cashflow(baseline.rows, 10)
        IN  /\ \A i \in DOMAIN baseline.rows :
                  /\ LessEq(min_forecast[i].netCashflow, base_forecast[i].netCashflow)
                  /\ LessEq(base_forecast[i].netCashflow, max_forecast[i].netCashflow)
            /\ LessEq(Cash_total(min_forecast), Cash_total(base_forecast))
            /\ LessEq(Cash_total(base_forecast), Cash_total(max_forecast))

(***************************************************************************)
(* C20: the balance-sheet identity: in every record calculate_balance_sheet *)
(* returns for the generated data, at every variation percentage,          *)
(* balanceSheetTotal = totalAssets = totalLiabilities + totalEquity.       *)
(***************************************************************************)
Bal_variation_percentages == {-10, 0, 10}

C20_BalanceSheetIdentity ==
    routine = "Bal_sensitivity_analysis" =>
        \A variation_percentage \in Bal_variation_percentages :
            LET balance_sheet == calculate_balance_sheet(baseline, variation_percentage)
            IN  \A i \in DOMAIN balance_sheet :
                    /\ balance_sheet[i].balanceSheetTotal = balance_sheet[i].totalAssets
                    /\ balance_sheet[i].totalAssets =
                           Add(balance_sheet[i].totalLiabilities, balance_sheet[i].totalEquity)

(***************************************************************************)
(* C16: the export round trip: parsing the text of the CSV download gives  *)
(* the period records that were exported: as many records, in the same     *)
(* order, and every field of every record with the same value, for the     *)
(* flat revenue and expense frames and for the code-v2 quarterly data with *)
(* its nested income_components and expense_components.                    *)
(***************************************************************************)
C16_ExportRoundTrip ==
    outcome = "exported" =>
        LET parsed == read_csv(csv)
        IN  /\ parsed.columns = base_data.columns
            /\ Len(parsed.rows) = Len(base_data.rows)
            /\ \A i \in DOMAIN base_data.rows : \A c \in base_data.columns :
                   parsed.rows[i][c] = base_data.rows[i][c]

\* (the same of the flat frames alone)
C16_FlatRoundTrip == routine \in Exporting => C16_ExportRoundTrip

(***************************************************************************)
(* C17: a generated baseline series has one record per reporting period:   *)
(* no two records returned by generate_sample_data (revenue_dashboard.py,  *)
(* code-v3 revenue and expense) or generate_quarterly_data (code-v2) carry *)
(* the same quarter label, whatever the generation date and the number of  *)
(* quarters.                                                               *)
(***************************************************************************)
Labelled ==
    {"Rev_perform_sensitivity_analysis", "RevV3_sensitivity_analysis",
     "ExpV3_sensitivity_analysis", "V2_overview"}

DistinctLabels(rows) ==
    \A i \in DOMAIN rows : \A j \in DOMAIN rows : i # j => rows[i].quarter # rows[j].quarter

C17_OneRecordPerQuarter ==
    (routine \in Labelled /\ "quarter" \in baseline.columns) => DistinctLabels(baseline.rows)

\* (the same of each generator alone)
C17_Rev == routine = "Rev_perform_sensitivity_analysis" => C17_OneRecordPerQuarter
C17_RevV3 == routine = "RevV3_sensitivity_analysis" => C17_OneRecordPerQuarter
C17_ExpV3 == routine = "ExpV3_sensitivity_analysis" => C17_OneRecordPerQuarter
C17_V2 == routine = "V2_overview" => C17_OneRecordPerQuarter

(***************************************************************************)
(* C18: the list generate_quarterly_data(years) returns is chronological,  *)
(* oldest period first: the dates the records were generated from increase *)
(* strictly with the index, the last element (latest) is the most recent   *)
(* quarter, and the second-to-last (previous) is the quarter immediately   *)
(* before it.                                                              *)
(***************************************************************************)
\* date of loop index i
V2_date(base_date, i) == base_date - 90 * i

\* The calendar quarter before the quarter of a label
QuarterBefore(label) ==
    IF label[1] = 1 THEN <<4, label[2] - 1>> ELSE <<label[1] - 1, label[2]>>

\* (the order alone: the record at index k is the one of loop index n - k)
C18_OldestFirst ==
    (routine = "V2_overview" /\ outcome = "exported") =>
        LET n == Len(baseline.rows)
        IN  /\ \A k \in 1 .. n :
                  baseline.rows[k].quarter = QuarterLabel(V2_date(arg.base_date, n - k), 0)
            /\ \A k \in 1 .. n : \A l \in 1 .. n :
                  k < l => V2_date(arg.base_date, n - k) < V2_date(arg.base_date, n - l)
            /\ table.latest = baseline.rows[n]
            /\ table.latest.quarter = QuarterLabel(arg.base_date, 0)
            /\ table.previous = baseline.rows[n - 1]

C18_Chronological ==
    /\ C18_OldestFirst
    /\ (routine = "V2_overview" /\ outcome = "exported") =>
           table.previous.quarter = QuarterBefore(table.latest.quarter)

(***************************************************************************)
(* C21: in the code-v3 expense sensitivity_analysis the percentChange of   *)
(* (param, variation) is the true percentage change of total expenses,     *)
(* (total_perturbed - base_expenses) / base_expenses * 100, times the      *)
(* fixed factor of the parameter; so the Minimum / Maximum Expenses cards  *)
(* are base_expenses plus the smallest / largest factor-weighted change    *)
(* of the total.                                                           *)
(***************************************************************************)
\* Total expenses of the baseline with parameter p scaled by 1 + L/100
C21_total_perturbed(rows, p, L) ==
    SumSeq([i \in DOMAIN rows |->
        SumSeq([k \in DOMAIN ExpV3_parameters |->
            IF ExpV3_parameters[k] = p
            THEN Mul(rows[i][p], Add(One, Frac(L, 100)))
            ELSE rows[i][ExpV3_parameters[k]]])])

C21_base_expenses == ColumnSum(baseline, "totalExpenses")

\* The change of the total that entry k of the results stands for
C21_change(k) ==
    Sub(C21_total_perturbed(baseline.rows, results[k].parameter, results[k].variation),
        C21_base_expenses)

C21_weighted(k) == Mul(C21_change(k), ExpV3_sensitivity_factors[results[k].parameter])

C21_summarised ==
    /\ routine = "ExpV3_sensitivity_analysis"
    /\ outcome \in {"rendered", "exported"}
    /\ IsFinite(C21_base_expenses)
    /\ ~IsZero(C21_base_expenses)

C21_smallest == SeriesMin([k \in DOMAIN results |-> Add(C21_base_expenses, C21_change(k))])
C21_largest == SeriesMax([k \in DOMAIN results |-> Add(C21_base_expenses, C21_change(k))])

Cash_unread == {"inventoryTurnover", "seasonalFactor", "supplierCreditDays", "fxRate"}

Cash_linear ==
    {"salesRevenue", "customerPrepayments", "rawMaterialCosts", "laborCosts", "capex",
     "operatingExpenses", "debtRepayments", "taxPayments", "dividendPayments"}

C22_UnreadZeroLinearSymmetric ==
    (/\ routine = "Cash_sensitivity_analysis"
     /\ step > 0
     /\ IsFinite(base_total)
     /\ ~IsZero(base_total)) =>
        \A p \in DOMAIN results :
            /\ p \in Cash_unread =>
                  results[p].increased = Zero /\ results[p].decreased = Zero
            /\ p \in Cash_linear => results[p].increased = Neg(results[p].decreased)

C22_Witness ==
    /\ Returned("Cash_sensitivity_analysis")
    /\ baseline.rows[1].debtRepayments = Num(4)
    /\ IsFinite(base_total)
    /\ ~IsZero(base_total)
    /\ results["fxRate"].increased = Zero
    /\ results["salesRevenue"].increased # Zero
    /\ results["debtRepayments"].increased # Zero
    /\ results["debtRepayments"].increased = Neg(results["debtRepayments"].decreased)
    /\ results["accountsReceivableDays"].increased # Neg(results["accountsReceivableDays"].decreased)

(***************************************************************************)
(* C23: the two revenue sensitivity implementations agree on the direct    *)
(* parameters: for each of topChannelValue, monthlyRecurringRevenue and    *)
(* newPromotionRevenue and every level, the percentage                     *)
(* perform_sensitivity_analysis of revenue_dashboard.py returns equals the *)
(* entry of the code-v3 sensitivity table; for customerAcquisitionCost,    *)
(* customerLifetimeValue and inventoryTurnover the code-v3 entry is 0.     *)
(***************************************************************************)
\* The sensitivity table the code-v3 script derives from a frame
RevV3_table(df) ==
    RevV3_sensitivity_table(
        [k \in 1 .. Len(RevV3_parameters) * Len(RevV3_variations) |->
            LET param     == RevV3_parameters[((k - 1) \div Len(RevV3_variations)) + 1]
                variation == RevV3_variations[((k - 1) % Len(RevV3_variations)) + 1]
            IN  [parameter |-> param,
                 variation |-> variation,
                 revenue   |-> RevV3_total_revenue(RevV3_iteration(df, param, variation).modified)]],
        ColumnSum(df, "revenueForecast"))

C23_special == {"customerAcquisitionCost", "customerLifetimeValue", "inventoryTurnover"}

\* The agreement in the states where either implementation has its table
C23_agreement ==
    /\ (Returned("Rev_perform_sensitivity_analysis") /\ baseline.columns = Rev_columns) =>
          LET sensitivity_table == RevV3_table(baseline)
          IN  \A p \in Rev_direct : \A i \in DOMAIN Rev_variations :
                  results[p][i] = sensitivity_table[p][Rev_variations[i]]
    /\ (/\ routine = "RevV3_sensitivity_analysis"
        /\ outcome = "rendered") =>
          /\ LET sensitivity_results == Rev_table(baseline)
             IN  \A p \in Rev_direct : \A i \in DOMAIN Rev_variations :
                     table[p][Rev_variations[i]] = sensitivity_results[p][i]
          /\ \A p \in C23_special : \A i \in DOMAIN RevV3_variations :
                table[p][RevV3_variations[i]] = Zero

C23_nonzero_aggregate ==
    LET base_forecast == ColumnSum(baseline, "revenueForecast")
    IN  IsFinite(base_forecast) /\ ~IsZero(base_forecast)

C24_StoredTotalAgrees ==
    /\ (/\ routine \in {"Rev_perform_sensitivity_analysis", "RevV3_sensitivity_analysis"}
        /\ baseline.columns = Rev_columns) =>
          /\ \A i \in DOMAIN baseline.rows :
                baseline.rows[i].revenueForecast =
                    Add(Add(baseline.rows[i].topChannelValue,
                            Mul(Num(3), baseline.rows[i].monthlyRecurringRevenue)),
                        baseline.rows[i].newPromotionRevenue)
          /\ ColumnSum(baseline, "revenueForecast") = Rev_revenue(baseline)
          /\ routine = "Rev_perform_sensitivity_analysis" => base_total = Rev_revenue(baseline)
    /\ (/\ routine = "ExpV3_sensitivity_analysis"
        /\ baseline.columns = ExpV3_columns) =>
          /\ \A i \in DOMAIN baseline.rows :
                baseline.rows[i].totalExpenses =
                    SumSeq([k \in DOMAIN ExpV3_parameters |->
                               baseline.rows[i][ExpV3_parameters[k]]])
          /\ base_total = ColumnSum(ExpV3_retotal(baseline), "totalExpenses")

C24_Witness ==
    /\ routine = "ExpV3_sensitivity_analysis"
    /\ outcome = "running"
    /\ step = 3
    /\ Len(baseline.rows) = MaxQuarters
    /\ Less(Num(100), baseline.rows[1].totalExpenses)
    /\ base_total = ColumnSum(modified_data, "totalExpenses")
    /\ Less(Num(100 * MaxQuarters), base_total)

(***************************************************************************)
(* C25: code-v3 perform_sensitivity_analysis(data, column, variations)     *)
(* returns one row per variation, in the order of variations, whose value  *)
(* is (1 + var) * sum(data[column]); the row of variation 0 is the         *)
(* unperturbed column sum, and data[column] is left unchanged by the call. *)
(***************************************************************************)
C25_OneScaledSumPerVariation ==
    (/\ routine = "Fc_perform_sensitivity_analysis"
     /\ arg \in base_data.columns) =>
        /\ Len(results) = step
        /\ outcome = "returned" => Len(results) = Len(Fc_variations)
        /\ \A k \in DOMAIN results :
              /\ results[k].variation = Fc_variations[k]
              /\ results[k].value =
                    Mul(Add(One, Frac(Fc_variations[k], 1000)), ColumnSum(baseline, arg))
              /\ Fc_variations[k] = 0 => results[k].value = ColumnSum(baseline, arg)
        /\ base_data = baseline

C25_Witness ==
    /\ routine = "Fc_perform_sensitivity_analysis"
    /\ outcome = "returned"
    /\ arg = "assets"
    /\ Len(baseline.rows) = MaxQuarters
    /\ Len(results) = 5
    /\ Less(Zero, ColumnSum(baseline, arg))
    /\ results[3].value = ColumnSum(baseline, arg)
    /\ Less(results[1].value, results[3].value)
    /\ Less(results[3].value, results[5].value)

(***************************************************************************)
(* C26: every record produced by code-v3 generate_forecast_data satisfies  *)
(* profit = revenue - expenses, net_cash_flow = operating_cash_flow +      *)
(* investing_cash_flow + financing_cash_flow and equity = assets -         *)
(* liabilities, and has investing_cash_flow <= 0.                          *)
(***************************************************************************)
C26_generated ==
    /\ routine = "Fc_perform_sensitivity_analysis"
    /\ \E years \in 0 .. 1, periods_per_year \in 1 .. MaxQuarters :
          baseline = generate_forecast_data(years, periods_per_year).data

C26_AccountingIdentities ==
    C26_generated =>
        \A i \in DOMAIN baseline.rows :
            LET r == baseline.rows[i]
            IN  /\ r.profit = Sub(r.revenue, r.expenses)
                /\ r.net_cash_flow =
                      Add(Add(r.operating_cash_flow, r.investing_cash_flow), r.financing_cash_flow)
                /\ r.equity = Sub(r.assets, r.liabilities)
                /\ LessEq(r.investing_cash_flow, Zero)

C26_Witness ==
    /\ C26_generated
    /\ Len(baseline.rows) = MaxQuarters
    /\ \A i \in DOMAIN baseline.rows :
          /\ Less(baseline.rows[i].investing_cash_flow, Zero)
          /\ baseline.rows[i].profit # Zero
          /\ Less(Zero, baseline.rows[i].equity)
    /\ baseline.rows[1].assets # baseline.rows[MaxQuarters].assets

(***************************************************************************)
(* C27: reproducible generation: because it reseeds the random generator   *)
(* with 42 on entry, code-v3 generate_forecast_data(years,                 *)
(* periods_per_year) returns the same numeric series on every call with    *)
(* the same arguments, whatever random draws were made before the call;    *)
(* likewise the numeric columns of code-v2 generate_data(days).  The       *)
(* series a call returned is the series the next call with the same        *)
(* arguments returns, in whatever state the generator then is.             *)
(***************************************************************************)
C27_numeric(df) ==
    [i \in DOMAIN df.rows |->
        [k \in DOMAIN V2c_numeric_columns |-> df.rows[i][V2c_numeric_columns[k]]]]

C27_Reproducible ==
    /\ Returned("generate_forecast_data") =>
          baseline = generate_forecast_data(arg.years, arg.periods_per_year).data
    /\ Returned("generate_data") =>
          \A s \in RngStates, base_date \in Today :
              C27_numeric(baseline) = C27_numeric(generate_data(s, base_date, arg.days).data)

C27_Witness ==
    /\ Returned("generate_forecast_data")
    /\ Len(baseline.rows) = MaxQuarters
    /\ rng # Seeded
    /\ baseline.rows[1].revenue # baseline.rows[MaxQuarters].revenue
    /\ baseline = generate_forecast_data(arg.years, arg.periods_per_year).data

(***************************************************************************)
(* C28: in the revenue, expense and balance-sheet forecast dashboards the  *)
(* minimum, base and maximum forecasts are ordered min <= base <= max for  *)
(* every period and in total, for every generated baseline: Jul29 revenue  *)
(* (0.8x / 1x / 1.2x of revenueForecast), generate_expense_sample_data     *)
(* (minForecast <= baseForecast <= maxForecast), balance sheet             *)
(* (calculate_balance_sheet at -10 / 0 / +10) and code-v3 revenue (min and *)
(* max of the sensitivity revenues versus base_forecast).                  *)
(***************************************************************************)
\* min_forecast = data['revenueForecast'] * 0.8
Rev_min_forecast(data) ==
    [i \in DOMAIN data.rows |-> Mul(data.rows[i].revenueForecast, Frac(8, 10))]

\* max_forecast = data['revenueForecast'] * 1.2
Rev_max_forecast(data) ==
    [i \in DOMAIN data.rows |-> Mul(data.rows[i].revenueForecast, Frac(12, 10))]

\* combined_forecast of the balance-sheet dashboard
Bal_combined_forecast(data) ==
    LET base_balance_sheet == calculate_balance_sheet(data, 0)
        max_balance_sheet  == calculate_balance_sheet(data, 10)
        min_balance_sheet  == calculate_balance_sheet(data, -10)
    IN  [i \in DOMAIN base_balance_sheet |->
            [quarter   |-> base_balance_sheet[i].quarter,
             baseTotal |-> base_balance_sheet[i].balanceSheetTotal,
             maxTotal  |-> max_balance_sheet[i].balanceSheetTotal,
             minTotal  |-> min_balance_sheet[i].balanceSheetTotal]]

\* sensitivity_results['revenue'].min() and .max() of the code-v3 revenue script
RevV3_minimum_forecast(sensitivity_results) ==
    SeriesMin([k \in DOMAIN sensitivity_results |-> sensitivity_results[k].revenue])

RevV3_maximum_forecast(sensitivity_results) ==
    SeriesMax([k \in DOMAIN sensitivity_results |-> sensitivity_results[k].revenue])

C28_generated_revenue ==
    \E s \in RngStates, base_date \in Today, quarters \in {Len(baseline.rows)} :
        \/ /\ routine = "Rev_perform_sensitivity_analysis"
           /\ baseline = Rev_generate_sample_data(s, base_date, quarters).data
        \/ /\ routine = "RevV3_sensitivity_analysis"
           /\ baseline = RevV3_generate_sample_data(s, base_date, quarters).data

C28_ordered(low, mid, high) == LessEq(low, mid) /\ LessEq(mid, high)

C28_column(rows, c) == [i \in DOMAIN rows |-> rows[i][c]]

C28_MinBaseMaxOrdered ==
    /\ (/\ routine = "Rev_perform_sensitivity_analysis"
        /\ outcome \in {"returned", "exported"}
        /\ C28_generated_revenue) =>
          LET min_forecast == Rev_min_forecast(baseline)
              max_forecast == Rev_max_forecast(baseline)
          IN  /\ \A i \in DOMAIN baseline.rows :
                    C28_ordered(min_forecast[i], baseline.rows[i].revenueForecast, max_forecast[i])
              /\ C28_ordered(SumSeq(min_forecast), SumSeq(C28_column(baseline.rows, "revenueForecast")),
                             SumSeq(max_forecast))
    /\ routine = "Exp_perform_expense_sensitivity_analysis" =>
          /\ \A i \in DOMAIN baseline.rows :
                C28_ordered(baseline.rows[i].minForecast, baseline.rows[i].baseForecast,
                            baseline.rows[i].maxForecast)
          /\ C28_ordered(SumSeq(C28_column(baseline.rows, "minForecast")),
                         SumSeq(C28_column(baseline.rows, "baseForecast")),
                         SumSeq(C28_column(baseline.rows, "maxForecast")))
    /\ routine = "Bal_sensitivity_analysis" =>
          LET combined_forecast == Bal_combined_forecast(baseline)
          IN  /\ \A i \in DOMAIN combined_forecast :
                    C28_ordered(combined_forecast[i].minTotal, combined_forecast[i].baseTotal,
                                combined_forecast[i].maxTotal)
              /\ C28_ordered(SumSeq(C28_column(combined_forecast, "minTotal")),
                             SumSeq(C28_column(combined_forecast, "baseTotal")),
                             SumSeq(C28_column(combined_forecast, "maxTotal")))
    /\ (/\ routine = "RevV3_sensitivity_analysis"
        /\ outcome \in {"returned", "rendered", "exported"}
        /\ C28_generated_revenue) =>
          C28_ordered(RevV3_minimum_forecast(results),
                      SumSeq(C28_column(baseline.rows, "revenueForecast")),
                      RevV3_maximum_forecast(results))

C28_Witness ==
    /\ routine = "Exp_perform_expense_sensitivity_analysis"
    /\ outcome = "returned"
    /\ Len(baseline.rows) = MaxQuarters
    /\ \A i \in DOMAIN baseline.rows :
          /\ Less(baseline.rows[i].minForecast, baseline.rows[i].baseForecast)
          /\ Less(baseline.rows[i].baseForecast, baseline.rows[i].maxForecast)
    /\ Less(SumSeq(C28_column(baseline.rows, "minForecast")),
            SumSeq(C28_column(baseline.rows, "baseForecast")))

====
